---- MODULE Spec2Model ----
(***************************************************************************)
(* Hand-history store (src/poker/hand_history.py) and statistics           *)
(* calculator (src/poker/stats_calculator.py) of the poker bot.            *)
(*                                                                         *)
(* Spec      : the HandHistory object under its public operations.         *)
(* SpecStats : StatsCalculator.calculate_stats applied to hand lists built *)
(*             record by record.                                           *)
(* SpecScan  : calculate_stats applied to one hand with a longer action    *)
(*             sequence.                                                   *)
(* SpecRaises: calculate_stats applied to one hand with a preflop raising  *)
(*             sequence of several raises.                                 *)
(* SpecMalformed : calculate_stats applied to one hand whose action dicts  *)
(*             may lack a key or carry an unknown street token.            *)
(* SpecPure  : one calculator called repeatedly on several hand lists.     *)
(* SpecTrack : the HandHistory object with the open hand edited between    *)
(*             start_new_hand and end_hand.                                *)
(* SpecHeld  : SpecTrack with the caller keeping the record that           *)
(*             start_new_hand returned and calling add_action on it.       *)
(* SpecSession : the SessionManager (src/data/session_manager.py) and the  *)
(*             store of its session.                                       *)
(* SpecPlayer : the classification methods of Player                      *)
(*             (src/poker/player.py) called on players with given stats.   *)
(* SpecSerial : to_dict followed by from_dict on HandRecord, Session and   *)
(*             PlayerStats objects.                                        *)
(* SpecStreets : HandRecord.add_action called with any street, and a       *)
(*             GameState (src/poker/game_state.py) advancing its street.   *)
(* SpecThreads : one thread mutating the HandHistory statement by          *)
(*             statement while another thread reads it.                    *)
(* SpecLive  : the SessionManager with get_session_summary asked while a   *)
(*             session is active.                                          *)
(* SpecLong  : one session of the SessionManager with more hands than the  *)
(*             store of a session keeps.                                   *)
(* SpecSummary : HandRecord.to_summary applied to a record whose actions   *)
(*             are added one by one.                                       *)
(***************************************************************************)
EXTENDS Integers, Sequences, FiniteSets, TLC

(***************************************************************************)
(* Bounds of the model.                                                    *)
(***************************************************************************)
\* largest max_hands a store is constructed with (0..MaxCap)
MaxCap == 2
\* HandRecord objects constructed in one run (start_new_hand, from_dict)
MaxObjs == 4
\* longest list handed to load_from_list
MaxLoad == 2
\* longest hand list handed to calculate_stats
MaxHandsIn == 2
\* most actions and showdown marks recorded in all the hands of one hand list
MaxEvents == 2
\* most actions of the one hand of SpecScan
MaxScan == 3
\* most actions of the one hand of SpecRaises
MaxRaises == 4
\* most actions of the one hand of SpecMalformed
MaxMalformed == 3
\* most actions added to one open hand of a store
MaxOpenActions == 1
\* HandRecord objects constructed in one run of SpecTrack
MaxTracked == 3
\* largest number of hands in the statistics of a player of SpecPlayer
MaxPlayerHands == 21
\* most actions of a hand record that is serialized
MaxSerialActions == 2
\* most actions added to the hand record and to the game state of SpecStreets
MaxStreetActions == 3
\* Session and HandRecord objects constructed in one run of SpecLive
MaxLive == 3
\* hands played in the one session of SpecLong
MaxLongHands == 1001
\* HandRecord objects constructed in one run of SpecHeld
MaxHeld == 2
\* HandRecord objects constructed in one run of SpecThreads
MaxThreadHands == 3
\* most actions of the record of SpecSummary
MaxSummaryActions == 6

\* Python's None
None == "None"

\* the dict add_action appends, with the keys the model reads
Act(player, action_type, street) ==
    [player |-> player, action_type |-> action_type, street |-> street]

\* values end_hand is called with
ResultValues == {-4, 0, 10}
Winners == {None, "Hero"}

VARIABLES
    max_hands,      \* HandHistory._max_hands
    hands,          \* HandHistory._hands, the closed list
    current_hand,   \* HandHistory._current_hand, None when no hand is open
    next_oid,       \* identity of the next HandRecord object constructed
    finalized,      \* history: the hands end_hand appended, in order
    pairs_only,     \* history: neither clear nor load_from_list was called
    in_hands,       \* the hands argument of calculate_stats
    in_player,      \* the player_name argument of the last call, None before it
    stats,          \* the PlayerStats the last call returned
    player_cache,   \* StatsCalculator._player_cache
    memo,           \* history: the first call on the calculator and its result
    current_session,\* SessionManager._current_session, None when no session is active
    hand_history,   \* SessionManager._hand_history is a store (the variables above) or None
    sessions,       \* SessionManager._sessions
    csv_files,      \* the rows of the sessions file and of the hands file written last
    record,         \* the HandRecord to_summary is called on
    summary,        \* the dict the last to_summary returned
    writer,         \* the statement of end_hand the mutating thread is at
    observed,       \* what the reading thread read last
    subject,        \* the object a method of Player, PlayerStats, HandRecord or Session is called on
    outcome,        \* what the last such call returned
    last_call       \* the operation called last and the exception it raised, if any

storeVars == <<max_hands, hands, current_hand, next_oid, finalized, pairs_only>>
managerVars == <<current_session, hand_history, sessions, csv_files>>
summaryVars == <<record, summary>>
threadVars == <<writer, observed>>
methodVars == <<subject, outcome>>

\* the mutating thread outside end_hand; nothing read by the reading thread
WriterIdle == [at |-> "idle", result_bb |-> 0, winner |-> None]
NothingSeen == [taken |-> FALSE]

\* no object chosen, no method called
NoSubject == [kind |-> None]
NoOutcome == [method |-> None]

\* summary before to_summary was called
NoSummary == [returned |-> FALSE]

\* last_call before any call, and after a call of op that returned
NoCall == [op |-> None, raised |-> None, args |-> <<>>]
Returned(op) == [op |-> op, raised |-> None, args |-> <<>>]
\* ... with the arguments of the call kept
ReturnedWith(op, args) == [op |-> op, raised |-> None, args |-> args]
\* ... and after a call of op that raised the exception exc
Raised(op, exc) == [op |-> op, raised |-> exc, args |-> <<>>]

(***************************************************************************)
(* Python sequence helpers.                                                *)
(***************************************************************************)
\* s[-n:] for n >= 0: the last n elements, except that -0 is 0, so s[-0:] is s
SliceLast(s, n) ==
    IF n = 0 \/ n >= Len(s) THEN s
    ELSE SubSeq(s, Len(s) - n + 1, Len(s))

RECURSIVE Gcd(_, _)
Gcd(a, b) == IF b = 0 THEN a ELSE Gcd(b, a % b)

\* the rational n/d (d > 0) in lowest terms: the value of a float quotient
Ratio(n, d) == LET g == Gcd(n, d) IN <<n \div g, d \div g>>
Zero == <<0, 1>>

RECURSIVE SumResults(_)
\* sum(h.result_bb for h in s), added up by halves so that a list of a
\* thousand hands is summed with a short recursion
SumResults(s) ==
    IF s = <<>> THEN 0
    ELSE IF Len(s) = 1 THEN s[1].result_bb
    ELSE LET half == Len(s) \div 2
         IN SumResults(SubSeq(s, 1, half)) + SumResults(SubSeq(s, half + 1, Len(s)))

(***************************************************************************)
(* HandRecord: the fields the store reads or writes.  oid is the identity  *)
(* of the Python object; hand_id the uuid-derived field.                   *)
(***************************************************************************)
NewHandRecord(oid) ==
    [oid |-> oid, hand_id |-> oid, result_bb |-> 0, winner |-> None,
     actions |-> <<>>, went_to_showdown |-> FALSE]

\* the value of _current_hand when no hand is open (Python None; no object has oid 0)
NoHand == [oid |-> 0, hand_id |-> 0, result_bb |-> 0, winner |-> None,
           actions |-> <<>>, went_to_showdown |-> FALSE]

\* the dicts load_from_list is fed with: one as written by to_dict, one empty
\* (keys is the set of keys the dict has; the other fields are their values)
LoadDicts ==
    { [keys |-> {"hand_id", "result_bb", "winner", "actions", "went_to_showdown"},
       hand_id |-> 1, result_bb |-> 10, winner |-> "Hero",
       actions |-> <<>>, went_to_showdown |-> TRUE],
      [keys |-> {}, hand_id |-> 0, result_bb |-> 0, winner |-> None,
       actions |-> <<>>, went_to_showdown |-> FALSE] }

\* HandRecord.from_dict: absent keys take the defaults, hand_id a fresh uuid
from_dict(d, oid) ==
    [oid |-> oid,
     hand_id |-> IF "hand_id" \in d.keys THEN d.hand_id ELSE oid,
     result_bb |-> IF "result_bb" \in d.keys THEN d.result_bb ELSE 0,
     winner |-> IF "winner" \in d.keys THEN d.winner ELSE None,
     actions |-> IF "actions" \in d.keys THEN d.actions ELSE <<>>,
     went_to_showdown |-> IF "went_to_showdown" \in d.keys
                          THEN d.went_to_showdown ELSE FALSE]

LoadLists == UNION { [1..n -> LoadDicts] : n \in 0..MaxLoad }

(***************************************************************************)
(* HandHistory operations.                                                 *)
(***************************************************************************)
StoreInit ==
    /\ max_hands \in 0..MaxCap
    /\ hands = <<>>
    /\ current_hand = NoHand
    /\ next_oid = 1
    /\ finalized = <<>>
    /\ pairs_only = TRUE

\* start_new_hand that files the hand it replaces in the closed list
StartNewHandClosesOpen ==
    /\ next_oid <= MaxObjs
    /\ current_hand' = NewHandRecord(next_oid)
    /\ next_oid' = next_oid + 1
    /\ hands' = IF current_hand # NoHand THEN Append(hands, current_hand) ELSE hands
    /\ UNCHANGED <<max_hands, finalized, pairs_only>>

\* start_new_hand: a fresh record replaces whatever was open
StartNewHand ==
    /\ next_oid <= MaxObjs
    /\ current_hand' = NewHandRecord(next_oid)
    /\ next_oid' = next_oid + 1
    /\ UNCHANGED <<max_hands, hands, finalized, pairs_only>>

\* the closed list after end_hand appended h and trimmed
AppendAndTrim(hs, h, cap) ==
    LET appended == Append(hs, h)
    IN IF Len(appended) > cap THEN SliceLast(appended, cap) ELSE appended

\* end_hand that forgets to empty the open slot
EndHandStaysOpen(result_bb, winner) ==
    IF current_hand # NoHand
    THEN LET h == [current_hand EXCEPT !.result_bb = result_bb, !.winner = winner]
         IN /\ hands' = AppendAndTrim(hands, h, max_hands)
            /\ current_hand' = h
            /\ finalized' = Append(finalized, h)
            /\ UNCHANGED <<max_hands, next_oid, pairs_only>>
    ELSE UNCHANGED storeVars

\* end_hand that appends the open hand without writing result_bb
EndHandKeepsResult(result_bb, winner) ==
    IF current_hand # NoHand
    THEN LET h == [current_hand EXCEPT !.winner = winner]
         IN /\ hands' = AppendAndTrim(hands, h, max_hands)
            /\ current_hand' = NoHand
            /\ finalized' = Append(finalized, h)
            /\ UNCHANGED <<max_hands, next_oid, pairs_only>>
    ELSE UNCHANGED storeVars

\* end_hand(result_bb, winner)
EndHand(result_bb, winner) ==
    IF current_hand # NoHand
    THEN LET h == [current_hand EXCEPT !.result_bb = result_bb, !.winner = winner]
         IN /\ hands' = AppendAndTrim(hands, h, max_hands)
            /\ current_hand' = NoHand
            /\ finalized' = Append(finalized, h)
            /\ UNCHANGED <<max_hands, next_oid, pairs_only>>
    ELSE UNCHANGED storeVars

\* clear()
Clear ==
    /\ hands' = <<>>
    /\ current_hand' = NoHand
    /\ pairs_only' = FALSE
    /\ UNCHANGED <<max_hands, next_oid, finalized>>

\* load_from_list(data): the closed list is rebuilt from the dicts
LoadFromList(data) ==
    /\ next_oid + Len(data) <= MaxObjs + 1
    /\ hands' = [i \in 1..Len(data) |-> from_dict(data[i], next_oid + i - 1)]
    /\ next_oid' = next_oid + Len(data)
    /\ pairs_only' = FALSE
    /\ UNCHANGED <<max_hands, current_hand, finalized>>

\* the read-only queries
get_hands_count == Len(hands)
get_total_profit_bb == SumResults(hands)
get_recent_hands(count) == IF hands # <<>> THEN SliceLast(hands, count) ELSE <<>>

(***************************************************************************)
(* The open hand in the hands of the caller: current_hand returns the      *)
(* record (or None), and the caller calls add_action on it or sets its     *)
(* went_to_showdown.  An attribute of None raises AttributeError.          *)
(***************************************************************************)
TrackActions == { Act("Hero", "raise", "preflop") }
\* values end_hand is called with when the open hand is edited
TrackResults == {-4, 10}
TrackWinners == {"Hero"}

\* history.current_hand.add_action(...)
AddActionToOpenHand(a) ==
    IF current_hand # NoHand
    THEN /\ Len(current_hand.actions) < MaxOpenActions
         /\ current_hand' = [current_hand EXCEPT !.actions = Append(@, a)]
         /\ last_call' = Returned("add_action")
         /\ UNCHANGED <<max_hands, hands, next_oid, finalized, pairs_only>>
    ELSE /\ last_call' = Raised("add_action", "AttributeError")
         /\ UNCHANGED storeVars

\* hand.add_action(...) on the record the latest start_new_hand returned:
\* the open hand, a hand of the closed list, or a hand the store dropped
AddActionToReturnedHand(a) ==
    LET hand == next_oid - 1
        closed_at == { i \in 1..Len(hands) : hands[i].oid = hand }
    IN /\ next_oid > 1
       /\ last_call' = Returned("add_action")
       /\ IF current_hand.oid = hand
          THEN /\ Len(current_hand.actions) < MaxOpenActions
               /\ current_hand' = [current_hand EXCEPT !.actions = Append(@, a)]
               /\ UNCHANGED <<max_hands, hands, next_oid, finalized, pairs_only>>
          ELSE IF closed_at # {}
          THEN /\ \A i \in closed_at : Len(hands[i].actions) < MaxOpenActions
               /\ hands' = [i \in 1..Len(hands) |->
                               IF i \in closed_at
                               THEN [hands[i] EXCEPT !.actions = Append(@, a)]
                               ELSE hands[i]]
               /\ UNCHANGED <<max_hands, current_hand, next_oid, finalized, pairs_only>>
          ELSE UNCHANGED storeVars

\* get_hands_count, get_total_profit_bb, get_recent_hands, calculate_stats
\* over the closed hands: nothing is written
ReadStore ==
    /\ last_call' = Returned("queries")
    /\ UNCHANGED storeVars

\* history.current_hand.went_to_showdown = True
MarkOpenShowdown ==
    IF current_hand # NoHand
    THEN /\ ~current_hand.went_to_showdown
         /\ current_hand' = [current_hand EXCEPT !.went_to_showdown = TRUE]
         /\ last_call' = Returned("went_to_showdown")
         /\ UNCHANGED <<max_hands, hands, next_oid, finalized, pairs_only>>
    ELSE /\ last_call' = Raised("went_to_showdown", "AttributeError")
         /\ UNCHANGED storeVars

(***************************************************************************)
(* Session and SessionManager (src/data/session_manager.py).  The store of *)
(* the manager is the store above while hand_history is TRUE.  The CSV     *)
(* files are taken to be readable and writable.                            *)
(***************************************************************************)
\* HandHistory(): the default max_hands
DefaultMaxHands == 1000

\* Session(): the fields the manager reads or writes; ended stands for
\* end_time is not None
NewSession(id) ==
    [session_id |-> id, ended |-> FALSE, hands_played |-> 0, profit_bb |-> 0]

\* the value of _current_session when no session is active (no object has id 0)
NoSession == NewSession(0)

\* Session.bb_per_100
bb_per_100(session) ==
    IF session.hands_played < 1 THEN Zero
    ELSE Ratio(100 * session.profit_bb, session.hands_played)

\* what the sessions file holds when the manager is constructed: nothing, or
\* one session of an earlier run
LoadedSessions ==
    { <<>>, <<[session_id |-> -1, ended |-> TRUE, hands_played |-> 2, profit_bb |-> 6]>> }

\* SessionManager.__init__: the sessions of the file are loaded
ManagerInit ==
    /\ current_session = NoSession
    /\ hand_history = FALSE
    /\ sessions \in LoadedSessions
    /\ csv_files = [sessions |-> sessions, hands |-> <<>>]

\* start_session(): a fresh session and a fresh store replace the current ones
StartSession ==
    /\ next_oid <= MaxObjs
    /\ current_session' = NewSession(next_oid)
    /\ next_oid' = next_oid + 1
    /\ hand_history' = TRUE
    /\ max_hands' = DefaultMaxHands
    /\ hands' = <<>>
    /\ current_hand' = NoHand
    /\ finalized' = <<>>
    /\ pairs_only' = TRUE
    /\ UNCHANGED <<sessions, csv_files>>

\* end_session with the session put in front of the list
EndSessionPrepends ==
    IF current_session = NoSession
    THEN UNCHANGED <<storeVars, managerVars>>
    ELSE LET session ==
                 [current_session EXCEPT
                     !.ended = TRUE,
                     !.hands_played = get_hands_count,
                     !.profit_bb = get_total_profit_bb]
         IN /\ sessions' = <<session>> \o sessions
            /\ csv_files' = [sessions |-> <<session>> \o sessions,
                             hands |-> IF hands # <<>> THEN hands ELSE csv_files.hands]
            /\ current_session' = NoSession
            /\ hand_history' = FALSE
            /\ hands' = <<>>
            /\ current_hand' = NoHand
            /\ UNCHANGED <<max_hands, next_oid, finalized, pairs_only>>

\* end_session with the open hand counted as played
EndSessionCountsOpenHand ==
    IF current_session = NoSession
    THEN UNCHANGED <<storeVars, managerVars>>
    ELSE LET session ==
                 [current_session EXCEPT
                     !.ended = TRUE,
                     !.hands_played = get_hands_count
                                        + (IF current_hand # NoHand THEN 1 ELSE 0),
                     !.profit_bb = get_total_profit_bb]
         IN /\ sessions' = Append(sessions, session)
            /\ csv_files' = [sessions |-> Append(sessions, session),
                             hands |-> IF hands # <<>> THEN hands ELSE csv_files.hands]
            /\ current_session' = NoSession
            /\ hand_history' = FALSE
            /\ hands' = <<>>
            /\ current_hand' = NoHand
            /\ UNCHANGED <<max_hands, next_oid, finalized, pairs_only>>

\* end_session(): None without an active session; else the session takes
\* the store's count and profit, the hands are saved (save_hands writes no
\* file for an empty list), the session joins the sessions list, the list
\* is saved, and session and store are dropped
EndSession ==
    IF current_session = NoSession
    THEN UNCHANGED <<storeVars, managerVars>>
    ELSE LET session ==
                 [current_session EXCEPT
                     !.ended = TRUE,
                     !.hands_played = IF hand_history THEN get_hands_count ELSE @,
                     !.profit_bb = IF hand_history THEN get_total_profit_bb ELSE @]
         IN /\ sessions' = Append(sessions, session)
            /\ csv_files' = [sessions |-> Append(sessions, session),
                             hands |-> IF hand_history /\ hands # <<>>
                                       THEN hands ELSE csv_files.hands]
            /\ current_session' = NoSession
            /\ hand_history' = FALSE
            /\ hands' = <<>>
            /\ current_hand' = NoHand
            /\ UNCHANGED <<max_hands, next_oid, finalized, pairs_only>>

\* record_hand_result(result_bb, winner)
RecordHandResult(result_bb, winner) ==
    /\ IF hand_history /\ current_hand # NoHand
       THEN EndHand(result_bb, winner)
       ELSE UNCHANGED storeVars
    /\ UNCHANGED managerVars

\* get_session_summary(): None without a session; else the store's count and
\* profit next to the session's own bb_per_100 (the time fields are left out)
get_session_summary ==
    IF current_session = NoSession
    THEN [returned |-> FALSE]
    ELSE [returned |-> TRUE,
          session_id |-> current_session.session_id,
          hands_played |-> IF hand_history THEN get_hands_count ELSE 0,
          profit_bb |-> IF hand_history THEN get_total_profit_bb ELSE 0,
          bb_per_100 |-> bb_per_100(current_session)]

\* the caller asks for the summary
GetSessionSummary ==
    /\ outcome' = [method |-> "get_session_summary", value |-> get_session_summary]
    /\ last_call' = Returned("get_session_summary")
    /\ UNCHANGED <<storeVars, managerVars, subject>>

(***************************************************************************)
(* Statistics calculator.  An action is a dict with the keys player,       *)
(* action_type and street; a hand carries the fields the calculator reads: *)
(* players, actions, went_to_showdown, winner.                             *)
(***************************************************************************)
\* the value of a key the dict does not have
Missing == "<missing>"

\* str.lower() on the action-type tokens
Lower(t) ==
    CASE t = "FOLD" -> "fold"
      [] t = "CHECK" -> "check"
      [] t = "CALL" -> "call"
      [] t = "BET" -> "bet"
      [] t = "RAISE" -> "raise"
      [] OTHER -> t

\* action.get("player"): None when absent, which equals no player name
get_player(a) == a.player
\* action.get("action_type", "").lower()
get_action_type(a) == IF a.action_type = Missing THEN "" ELSE Lower(a.action_type)
\* action.get("street"): None when absent, which equals no street name
get_street(a) == a.street
\* action.get("street", "preflop")
get_street_or_preflop(a) == IF a.street = Missing THEN "preflop" ELSE a.street

\* the percentage without the guard on opportunities == 0: x / 0
PercentageNoGuard(count, opportunities) ==
    IF opportunities = 0 THEN <<100 * count, 0>> ELSE Ratio(100 * count, opportunities)

\* (count / opportunities) * 100, and 0.0 when there is no opportunity
Percentage(count, opportunities) ==
    IF opportunities = 0 THEN Zero ELSE Ratio(100 * count, opportunities)

\* a counter after the loop over the hands: the sum of what each hand added
RECURSIVE SumSeq(_)
SumSeq(s) == IF s = <<>> THEN 0 ELSE s[1] + SumSeq(Tail(s))

\* the vpip loop without its break: every qualifying action counts
RECURSIVE VpipScanNoBreak(_, _, _)
VpipScanNoBreak(player, acts, i) ==
    IF i > Len(acts) THEN 0
    ELSE (IF /\ get_player(acts[i]) = player
             /\ get_street_or_preflop(acts[i]) = "preflop"
             /\ get_action_type(acts[i]) \in {"call", "raise", "bet"}
          THEN 1 ELSE 0) + VpipScanNoBreak(player, acts, i + 1)

\* the vpip loop with "bet" left out of the voluntary action types
RECURSIVE VpipScanNoBet(_, _, _)
VpipScanNoBet(player, acts, i) ==
    IF i > Len(acts) THEN 0
    ELSE IF /\ get_player(acts[i]) = player
            /\ get_street_or_preflop(acts[i]) = "preflop"
            /\ get_action_type(acts[i]) \in {"call", "raise"}
         THEN 1
         ELSE VpipScanNoBet(player, acts, i + 1)

\* _calculate_vpip, inner loop: 1 when the scan reaches a preflop call/raise/bet
\* of the player, 0 when it runs off the end
RECURSIVE VpipScan(_, _, _)
VpipScan(player, acts, i) ==
    IF i > Len(acts) THEN 0
    ELSE IF /\ get_player(acts[i]) = player
            /\ get_street_or_preflop(acts[i]) = "preflop"
            /\ get_action_type(acts[i]) \in {"call", "raise", "bet"}
         THEN 1
         ELSE VpipScan(player, acts, i + 1)

VpipCount(player, hand) == VpipScan(player, hand.actions, 1)
OneOpportunity(player, hand) == 1

\* the two counters of _calculate_vpip after its loop
vpip_counters(player, hs) ==
    [opportunities |-> SumSeq([i \in 1..Len(hs) |-> OneOpportunity(player, hs[i])]),
     count |-> SumSeq([i \in 1..Len(hs) |-> VpipCount(player, hs[i])])]

_calculate_vpip(player, hs) ==
    LET c == vpip_counters(player, hs) IN Percentage(c.count, c.opportunities)

\* the pfr loop without the test on the street
RECURSIVE PfrScanAnyStreet(_, _, _)
PfrScanAnyStreet(player, acts, i) ==
    IF i > Len(acts) THEN 0
    ELSE IF get_player(acts[i]) = player /\ get_action_type(acts[i]) = "raise"
         THEN 1
         ELSE PfrScanAnyStreet(player, acts, i + 1)

\* _calculate_pfr, inner loop
RECURSIVE PfrScan(_, _, _)
PfrScan(player, acts, i) ==
    IF i > Len(acts) THEN 0
    ELSE IF /\ get_player(acts[i]) = player
            /\ get_street_or_preflop(acts[i]) = "preflop"
            /\ get_action_type(acts[i]) = "raise"
         THEN 1
         ELSE PfrScan(player, acts, i + 1)

PfrCount(player, hand) == PfrScan(player, hand.actions, 1)

pfr_counters(player, hs) ==
    [opportunities |-> SumSeq([i \in 1..Len(hs) |-> OneOpportunity(player, hs[i])]),
     count |-> SumSeq([i \in 1..Len(hs) |-> PfrCount(player, hs[i])])]

_calculate_pfr(player, hs) ==
    LET c == pfr_counters(player, hs) IN Percentage(c.count, c.opportunities)

\* the 3-bet loop in which the player's own raise sets raise_seen as well
RECURSIVE ThreeBetScanAnyRaise(_, _, _, _, _, _)
ThreeBetScanAnyRaise(player, acts, i, raise_seen, player_acted, opps) ==
    IF i > Len(acts) THEN <<opps, 0>>
    ELSE LET a == acts[i]
             is_raise == get_action_type(a) = "raise"
             by_player == get_player(a) = player
         IN IF get_street(a) # "preflop" THEN <<opps, 0>>
            ELSE IF is_raise /\ by_player /\ raise_seen /\ ~player_acted
                 THEN <<opps + 1, 1>>
            ELSE LET seen == raise_seen \/ is_raise
                 IN IF by_player
                    THEN ThreeBetScanAnyRaise(player, acts, i + 1, seen, TRUE,
                                      IF seen /\ ~player_acted THEN opps + 1 ELSE opps)
                    ELSE ThreeBetScanAnyRaise(player, acts, i + 1, seen, player_acted, opps)

\* _calculate_3bet, inner loop from action i on, with the loop's two flags and
\* the opportunities counted so far in this hand; the result is
\* <<opportunities, three_bet_count>> added by the hand
RECURSIVE ThreeBetScan(_, _, _, _, _, _)
ThreeBetScan(player, acts, i, raise_seen, player_acted, opps) ==
    IF i > Len(acts) THEN <<opps, 0>>
    ELSE LET a == acts[i]
             is_raise == get_action_type(a) = "raise"
             by_player == get_player(a) = player
         IN IF get_street(a) # "preflop" THEN <<opps, 0>>
            ELSE IF is_raise /\ by_player /\ raise_seen /\ ~player_acted
                 THEN <<opps + 1, 1>>
            ELSE LET seen == raise_seen \/ (is_raise /\ ~by_player)
                 IN IF by_player
                    THEN ThreeBetScan(player, acts, i + 1, seen, TRUE,
                                      IF seen /\ ~player_acted THEN opps + 1 ELSE opps)
                    ELSE ThreeBetScan(player, acts, i + 1, seen, player_acted, opps)

ThreeBetOpportunity(player, hand) ==
    ThreeBetScan(player, hand.actions, 1, FALSE, FALSE, 0)[1]
ThreeBetCount(player, hand) ==
    ThreeBetScan(player, hand.actions, 1, FALSE, FALSE, 0)[2]

three_bet_counters(player, hs) ==
    [opportunities |-> SumSeq([i \in 1..Len(hs) |-> ThreeBetOpportunity(player, hs[i])]),
     count |-> SumSeq([i \in 1..Len(hs) |-> ThreeBetCount(player, hs[i])])]

_calculate_3bet(player, hs) ==
    LET c == three_bet_counters(player, hs) IN Percentage(c.count, c.opportunities)

\* _calculate_fold_to_3bet, inner loop: <<opportunities, fold_count>> of the hand
RECURSIVE FoldTo3betScan(_, _, _, _, _)
FoldTo3betScan(player, acts, i, player_raised, faced_3bet) ==
    IF i > Len(acts) THEN <<0, 0>>
    ELSE LET a == acts[i]
             is_raise == get_action_type(a) = "raise"
         IN IF get_street(a) # "preflop" THEN <<0, 0>>
            ELSE IF get_player(a) = player
                 THEN IF is_raise /\ ~player_raised
                      THEN FoldTo3betScan(player, acts, i + 1, TRUE, faced_3bet)
                      ELSE IF faced_3bet
                           THEN <<1, IF get_action_type(a) = "fold" THEN 1 ELSE 0>>
                           ELSE FoldTo3betScan(player, acts, i + 1, player_raised, faced_3bet)
                 ELSE FoldTo3betScan(player, acts, i + 1, player_raised,
                                     faced_3bet \/ (player_raised /\ is_raise))

FoldTo3betOpportunity(player, hand) ==
    FoldTo3betScan(player, hand.actions, 1, FALSE, FALSE)[1]
FoldTo3betCount(player, hand) ==
    FoldTo3betScan(player, hand.actions, 1, FALSE, FALSE)[2]

fold_to_3bet_counters(player, hs) ==
    [opportunities |-> SumSeq([i \in 1..Len(hs) |-> FoldTo3betOpportunity(player, hs[i])]),
     count |-> SumSeq([i \in 1..Len(hs) |-> FoldTo3betCount(player, hs[i])])]

_calculate_fold_to_3bet(player, hs) ==
    LET c == fold_to_3bet_counters(player, hs) IN Percentage(c.count, c.opportunities)

\* _calculate_af: the player's actions of the given types in one hand
RECURSIVE CountTypes(_, _, _, _)
CountTypes(player, acts, i, types) ==
    IF i > Len(acts) THEN 0
    ELSE (IF get_player(acts[i]) = player /\ get_action_type(acts[i]) \in types
          THEN 1 ELSE 0) + CountTypes(player, acts, i + 1, types)

BetsRaises(player, hand) == CountTypes(player, hand.actions, 1, {"bet", "raise"})
Calls(player, hand) == CountTypes(player, hand.actions, 1, {"call"})

af_counters(player, hs) ==
    [bets_raises |-> SumSeq([i \in 1..Len(hs) |-> BetsRaises(player, hs[i])]),
     calls |-> SumSeq([i \in 1..Len(hs) |-> Calls(player, hs[i])])]

\* the aggression factor with 0.0 returned whenever there is no call
AfZeroWithoutCalls(player, hs) ==
    LET c == af_counters(player, hs)
    IN IF c.calls = 0 THEN Zero ELSE Ratio(c.bets_raises, c.calls)

\* if calls == 0: return bets_raises if bets_raises > 0 else 0.0
\* return bets_raises / calls
_calculate_af(player, hs) ==
    LET c == af_counters(player, hs)
    IN IF c.calls = 0
       THEN (IF c.bets_raises > 0 THEN <<c.bets_raises, 1>> ELSE Zero)
       ELSE Ratio(c.bets_raises, c.calls)

\* player_saw_flop set by an action of the player on any street
PlayerActedAtAll(player, hand) ==
    \E i \in 1..Len(hand.actions) : get_player(hand.actions[i]) = player

\* _calculate_wtsd: player_saw_flop after the loop over the actions
PlayerSawFlop(player, hand) ==
    \E i \in 1..Len(hand.actions) :
        get_player(hand.actions[i]) = player /\ get_street(hand.actions[i]) = "flop"

SawFlop(player, hand) == IF PlayerSawFlop(player, hand) THEN 1 ELSE 0
WentToShowdown(player, hand) ==
    IF PlayerSawFlop(player, hand) /\ hand.went_to_showdown /\ player \in hand.players
    THEN 1 ELSE 0

wtsd_counters(player, hs) ==
    [opportunities |-> SumSeq([i \in 1..Len(hs) |-> SawFlop(player, hs[i])]),
     count |-> SumSeq([i \in 1..Len(hs) |-> WentToShowdown(player, hs[i])])]

_calculate_wtsd(player, hs) ==
    LET c == wtsd_counters(player, hs) IN Percentage(c.count, c.opportunities)

\* _calculate_wssd
Showdown(player, hand) ==
    IF hand.went_to_showdown /\ player \in hand.players THEN 1 ELSE 0
ShowdownWin(player, hand) ==
    IF hand.went_to_showdown /\ player \in hand.players /\ hand.winner = player
    THEN 1 ELSE 0

wssd_counters(player, hs) ==
    [opportunities |-> SumSeq([i \in 1..Len(hs) |-> Showdown(player, hs[i])]),
     count |-> SumSeq([i \in 1..Len(hs) |-> ShowdownWin(player, hs[i])])]

_calculate_wssd(player, hs) ==
    LET c == wssd_counters(player, hs) IN Percentage(c.count, c.opportunities)

\* _calculate_cbet, first loop: the flag was_aggressor after the preflop prefix
RECURSIVE WasAggressor(_, _, _)
WasAggressor(player, acts, i) ==
    IF i > Len(acts) THEN FALSE
    ELSE IF get_street(acts[i]) # "preflop" THEN FALSE
    ELSE \/ get_player(acts[i]) = player /\ get_action_type(acts[i]) = "raise"
         \/ WasAggressor(player, acts, i + 1)

\* _calculate_cbet, second loop: <<opportunities, cbet_count>> of the hand
RECURSIVE CbetScan(_, _, _)
CbetScan(player, acts, i) ==
    IF i > Len(acts) THEN <<0, 0>>
    ELSE IF get_street(acts[i]) = "flop" /\ get_player(acts[i]) = player
         THEN <<1, IF get_action_type(acts[i]) \in {"bet", "raise"} THEN 1 ELSE 0>>
         ELSE CbetScan(player, acts, i + 1)

CbetOpportunity(player, hand) ==
    IF WasAggressor(player, hand.actions, 1) THEN CbetScan(player, hand.actions, 1)[1] ELSE 0
CbetCount(player, hand) ==
    IF WasAggressor(player, hand.actions, 1) THEN CbetScan(player, hand.actions, 1)[2] ELSE 0

cbet_counters(player, hs) ==
    [opportunities |-> SumSeq([i \in 1..Len(hs) |-> CbetOpportunity(player, hs[i])]),
     count |-> SumSeq([i \in 1..Len(hs) |-> CbetCount(player, hs[i])])]

_calculate_cbet(player, hs) ==
    LET c == cbet_counters(player, hs) IN Percentage(c.count, c.opportunities)

\* PlayerStats(): every field at its default
PlayerStats ==
    [hands |-> 0, vpip |-> Zero, pfr |-> Zero, three_bet |-> Zero,
     fold_to_3bet |-> Zero, af |-> Zero, wtsd |-> Zero, wssd |-> Zero, cbet |-> Zero]

\* the hand list taken as it is, without the filter on players
AllHands(player_name, hs) == hs

\* [h for h in hands if player_name in h.players]
PlayerHands(player_name, hs) == SelectSeq(hs, LAMBDA h : player_name \in h.players)

\* StatsCalculator.calculate_stats
calculate_stats(player_name, hs) ==
    IF hs = <<>> THEN PlayerStats
    ELSE LET player_hands == PlayerHands(player_name, hs)
         IN IF Len(player_hands) = 0 THEN PlayerStats
            ELSE [hands |-> Len(player_hands),
                  vpip |-> _calculate_vpip(player_name, player_hands),
                  pfr |-> _calculate_pfr(player_name, player_hands),
                  three_bet |-> _calculate_3bet(player_name, player_hands),
                  fold_to_3bet |-> _calculate_fold_to_3bet(player_name, player_hands),
                  af |-> _calculate_af(player_name, player_hands),
                  wtsd |-> _calculate_wtsd(player_name, player_hands),
                  wssd |-> _calculate_wssd(player_name, player_hands),
                  cbet |-> _calculate_cbet(player_name, player_hands)]

(***************************************************************************)
(* SpecStats: a hand list is put together record by record (HandRecord(),  *)
(* add_action, the showdown fields), then calculate_stats is called on it. *)
(***************************************************************************)
StatPlayers == {"Hero", "Villain"}
\* the player statistics are asked for
Subjects == {"Hero"}
ActionTypes == {"fold", "check", "call", "bet", "raise"}
StatStreets == {"preflop", "flop"}
\* Hero acts in every way; of another player's action the calculator reads
\* only the street and whether it is a raise
StatActions ==
    [player : {"Hero"}, action_type : ActionTypes, street : StatStreets]
    \cup [player : {"Villain"}, action_type : {"call", "raise"}, street : StatStreets]
\* the players lists of the input hands: Hero at the table or not
PlayerLists == {{"Hero", "Villain"}, {"Villain"}}

\* HandRecord(players=ps): the other fields at their dataclass defaults
StatHand(ps) ==
    [players |-> ps, actions |-> <<>>, went_to_showdown |-> FALSE, winner |-> None]

\* what was recorded in a hand list: the actions and the showdown marks
RECURSIVE TotalEvents(_)
TotalEvents(hs) ==
    IF hs = <<>> THEN 0
    ELSE Len(hs[1].actions) + (IF hs[1].went_to_showdown THEN 1 ELSE 0)
         + TotalEvents(Tail(hs))

\* stats before calculate_stats returned
NoStats == [PlayerStats EXCEPT !.hands = -1]
\* memo before the first call
NoMemo == [player |-> None, hands |-> <<>>, result |-> NoStats,
           between |-> FALSE, repeated |-> FALSE]
\* _player_cache = {}: no player has an entry
EmptyCache == [p \in StatPlayers |-> NoStats]

StatsInit ==
    /\ in_hands = <<>>
    /\ in_player = None
    /\ stats = NoStats
    /\ player_cache = EmptyCache
    /\ memo = NoMemo

\* hands.append(HandRecord(players=ps))
NewHand(ps) ==
    /\ stats = NoStats
    /\ Len(in_hands) < MaxHandsIn
    /\ in_hands' = Append(in_hands, StatHand(ps))
    /\ UNCHANGED <<in_player, stats, player_cache>>

\* hands[-1].add_action(player, action_type, amount, street), while fewer than
\* limit actions and showdown marks were recorded
RecordAction(a, limit) ==
    /\ stats = NoStats
    /\ in_hands # <<>>
    /\ TotalEvents(in_hands) < limit
    /\ in_hands' = [in_hands EXCEPT ![Len(in_hands)].actions = Append(@, a)]
    /\ UNCHANGED <<in_player, stats, player_cache>>

AddAction(a) == RecordAction(a, MaxEvents)

\* hands[-1].went_to_showdown = True; hands[-1].winner = w
MarkShowdown(w) ==
    /\ stats = NoStats
    /\ in_hands # <<>>
    /\ ~in_hands[Len(in_hands)].went_to_showdown
    /\ TotalEvents(in_hands) < MaxEvents
    /\ in_hands' = [in_hands EXCEPT ![Len(in_hands)].went_to_showdown = TRUE,
                                    ![Len(in_hands)].winner = w]
    /\ UNCHANGED <<in_player, stats, player_cache>>

\* a calculate_stats that adds the new count to the cached entry of the player
CalcAccumulating(p) ==
    LET fresh == calculate_stats(p, in_hands)
        cached == player_cache[p]
        result == IF cached = NoStats THEN fresh
                  ELSE [fresh EXCEPT !.hands = cached.hands + fresh.hands]
    IN /\ stats' = result
       /\ in_player' = p
       /\ player_cache' = [player_cache EXCEPT ![p] = result]
       /\ UNCHANGED in_hands

\* stats = calculator.calculate_stats(p, hands): a fresh PlayerStats is filled
\* and returned; neither the list nor the calculator's cache is written
Calc(p) ==
    /\ stats' = calculate_stats(p, in_hands)
    /\ in_player' = p
    /\ UNCHANGED <<in_hands, player_cache>>

StatsNext ==
    /\ \/ \E ps \in PlayerLists : NewHand(ps)
       \/ \E a \in StatActions : AddAction(a)
       \/ \E w \in {None, "Hero"} : MarkShowdown(w)
       \/ \E p \in Subjects : stats = NoStats /\ Calc(p)
    /\ UNCHANGED memo

statsVars == <<in_hands, in_player, stats, player_cache, memo>>

(***************************************************************************)
(* SpecScan: calculate_stats on a list of one hand with up to MaxScan      *)
(* actions, for the statistics decided by a scan of several actions.       *)
(***************************************************************************)
ScanInit ==
    /\ \E ps \in PlayerLists : in_hands = <<StatHand(ps)>>
    /\ in_player = None
    /\ stats = NoStats
    /\ player_cache = EmptyCache
    /\ memo = NoMemo

AddScanAction(a) == RecordAction(a, MaxScan)

ScanNext ==
    /\ \/ \E a \in StatActions : AddScanAction(a)
       \/ \E p \in Subjects : stats = NoStats /\ Calc(p)
    /\ UNCHANGED memo

(***************************************************************************)
(* SpecRaises: calculate_stats on a list of one hand with up to MaxRaises  *)
(* actions of a preflop raising sequence: raises and re-raises of both     *)
(* players, calls and folds, and the first action of the flop.             *)
(***************************************************************************)
RaiseActions ==
    { Act("Hero", "raise", "preflop"), Act("Hero", "call", "preflop"),
      Act("Hero", "fold", "preflop"), Act("Villain", "raise", "preflop"),
      Act("Villain", "call", "preflop"), Act("Villain", "call", "flop") }

AddRaiseAction(a) == RecordAction(a, MaxRaises)

RaisesNext ==
    /\ \/ \E a \in RaiseActions : AddRaiseAction(a)
       \/ \E p \in Subjects : stats = NoStats /\ Calc(p)
    /\ UNCHANGED memo

(***************************************************************************)
(* SpecMalformed: calculate_stats on a list of one hand with up to         *)
(* MaxMalformed action dicts, well-formed ones and ones that lack the      *)
(* player, action_type or street key or carry a street token that is no    *)
(* street.                                                                 *)
(***************************************************************************)
WellFormedActions ==
    { Act("Hero", "call", "preflop"), Act("Hero", "raise", "preflop"),
      Act("Villain", "raise", "preflop"), Act("Hero", "bet", "flop") }

MalformedActions ==
    { Act(Missing, "raise", "preflop"), Act("Hero", Missing, "preflop"),
      Act("Hero", "call", Missing), Act("Villain", "call", "bogus") }

AddAnyAction(a) == RecordAction(a, MaxMalformed)

MalformedNext ==
    /\ \/ \E a \in WellFormedActions \cup MalformedActions : AddAnyAction(a)
       \/ \E p \in Subjects : stats = NoStats /\ Calc(p)
    /\ UNCHANGED memo

(***************************************************************************)
(* SpecPure: one calculator called again and again, for either player, on  *)
(* hand lists the caller switches between.                                 *)
(***************************************************************************)
\* hands written as src/tests/test_stats.py writes them: a raise, a call
\* behind a raise, a hand Hero is not listed in
SampleHands ==
    { [StatHand({"Hero", "Villain"}) EXCEPT
          !.actions = <<Act("Hero", "raise", "preflop")>>],
      [StatHand({"Hero", "Villain"}) EXCEPT
          !.actions = <<Act("Villain", "raise", "preflop"), Act("Hero", "call", "preflop")>>],
      [StatHand({"Villain"}) EXCEPT
          !.actions = <<Act("Villain", "call", "preflop")>>] }

PureLists == UNION { [1..n -> SampleHands] : n \in 0..MaxHandsIn }

PureInit ==
    /\ in_hands \in PureLists
    /\ in_player = None
    /\ stats = NoStats
    /\ player_cache = EmptyCache
    /\ memo = NoMemo

\* the caller turns to another hand list
SwitchList(hs) ==
    /\ in_hands' = hs
    /\ in_player' = None
    /\ stats' = NoStats
    /\ UNCHANGED <<player_cache, memo>>

\* a call, and the history of the first call: whether calls with another
\* player or list followed it, and whether it was repeated after those
CalcAndRemember(p) ==
    /\ Calc(p)
    /\ memo' = IF memo = NoMemo
               THEN [NoMemo EXCEPT !.player = p, !.hands = in_hands, !.result = stats']
               ELSE IF memo.player = p /\ memo.hands = in_hands
               THEN [memo EXCEPT !.repeated = memo.between]
               ELSE [memo EXCEPT !.between = TRUE]

PureNext ==
    \/ \E p \in StatPlayers : CalcAndRemember(p)
    \/ \E hs \in PureLists : SwitchList(hs)

(***************************************************************************)
(* HandRecord.get_action_sequence and HandRecord.to_summary.  A string is  *)
(* a TLA+ string; an Optional[float] is <<>> for None and <<x>> for x.     *)
(***************************************************************************)
\* characters of the action sequence a summary keeps
SummaryLimit == 100

NoAmount == <<>>
Amount(x) == <<x>>

\* the dict add_action appends, with the keys get_action_sequence reads
ActOf(player, action_type, amount) ==
    [player |-> player, action_type |-> action_type, amount |-> amount]

\* a HandRecord with the fields to_summary reads, as constructed
BlankRecord ==
    [hero_cards |-> <<>>, board |-> <<>>, hero_position |-> None,
     result_bb |-> 0, actions |-> <<>>]

\* str(x) of a float x without fractional part
FloatStr(x) == ToString(x) \o ".0"

\* bool(amount): None and 0.0 are false
Truthy(amount) == amount # NoAmount /\ amount[1] # 0

\* the part of one action in the action sequence
ActionStr(a) ==
    a.player \o ": " \o a.action_type \o
        (IF Truthy(a.amount) THEN " " \o FloatStr(a.amount[1]) ELSE "")

RECURSIVE Join(_, _)
\* sep.join(parts)
Join(sep, parts) ==
    IF parts = <<>> THEN ""
    ELSE IF Len(parts) = 1 THEN parts[1]
    ELSE parts[1] \o sep \o Join(sep, Tail(parts))

get_action_sequence(hand) ==
    Join(" -> ", [i \in 1..Len(hand.actions) |-> ActionStr(hand.actions[i])])

\* s[:n] with everything kept
KeepAll(s, n) == s

\* s[:n] for n >= 0
SliceFirst(s, n) == IF Len(s) <= n THEN s ELSE SubSeq(s, 1, n)

to_summary(hand) ==
    [returned |-> TRUE,
     hero_cards |-> Join(" ", hand.hero_cards),
     board |-> IF hand.board # <<>> THEN Join(" ", hand.board) ELSE "No board",
     position |-> hand.hero_position,
     result_bb |-> hand.result_bb,
     action_summary |-> SliceFirst(get_action_sequence(hand), SummaryLimit)]

\* the records to_summary is called on, before their actions are added
SummaryRecords ==
    { [BlankRecord EXCEPT !.hero_cards = c, !.board = b, !.hero_position = p,
                          !.result_bb = r] :
        c \in {<<"Ah", "Kd">>}, b \in {<<>>, <<"2c", "7d", "Jh">>},
        p \in {None, "BTN"}, r \in {10} }

\* the actions add_action is called with
SummaryActions ==
    { ActOf("Hero", "call", NoAmount),
      ActOf("Hero", "check", Amount(0)),
      ActOf("Villain", "raise", Amount(10)) }

SummaryInit == record \in SummaryRecords /\ summary = NoSummary /\ last_call = NoCall

\* record.add_action(player, action_type, amount)
AddSummaryAction(a) ==
    /\ Len(record.actions) < MaxSummaryActions
    /\ record' = [record EXCEPT !.actions = Append(@, a)]
    /\ last_call' = Returned("add_action")
    /\ UNCHANGED summary

\* record.to_summary()
ToSummary ==
    /\ summary' = to_summary(record)
    /\ last_call' = Returned("to_summary")
    /\ UNCHANGED record

SummaryNext ==
    \/ \E a \in SummaryActions : AddSummaryAction(a)
    \/ ToSummary

(***************************************************************************)
(* Player: the classification methods.  A float statistic is an exact      *)
(* rational <<numerator, denominator>>, as the calculator produces it.     *)
(***************************************************************************)
\* a < b for rationals with positive denominators
Less(a, b) == a[1] * b[2] < b[1] * a[2]

\* self.stats.vpip < 20 and self.stats.hands >= 20, without the sample gate
IsTightUngated(player) == Less(player.stats.vpip, <<20, 1>>)

\* Player.is_tight
is_tight(player) == Less(player.stats.vpip, <<20, 1>>) /\ player.stats.hands >= 20

\* Player.is_loose
is_loose(player) == Less(<<35, 1>>, player.stats.vpip) /\ player.stats.hands >= 20

\* Player.is_aggressive
is_aggressive(player) == Less(<<5, 2>>, player.stats.af) /\ player.stats.hands >= 20

\* Player.is_passive
is_passive(player) == Less(player.stats.af, <<3, 2>>) /\ player.stats.hands >= 20

\* get_player_type with the thresholds of is_tight and is_aggressive
PlayerTypeByPredicates(player) ==
    IF player.stats.hands < 20 THEN "Unknown"
    ELSE LET tight == Less(player.stats.vpip, <<20, 1>>)
             aggressive == Less(<<5, 2>>, player.stats.af)
         IN IF tight /\ aggressive THEN "TAG (Tight Aggressive)"
            ELSE IF tight /\ ~aggressive THEN "TP (Tight Passive)"
            ELSE IF ~tight /\ aggressive THEN "LAG (Loose Aggressive)"
            ELSE "LP (Loose Passive)"

\* Player.get_player_type
get_player_type(player) ==
    IF player.stats.hands < 20 THEN "Unknown"
    ELSE LET tight == Less(player.stats.vpip, <<25, 1>>)
             aggressive == Less(<<2, 1>>, player.stats.af)
         IN IF tight /\ aggressive THEN "TAG (Tight Aggressive)"
            ELSE IF tight /\ ~aggressive THEN "TP (Tight Passive)"
            ELSE IF ~tight /\ aggressive THEN "LAG (Loose Aggressive)"
            ELSE "LP (Loose Passive)"

\* the statistics players are given: hand counts, VPIP percentages and
\* aggression factors on both sides of every threshold and on it
PlayerHandCounts == {0, 19, 20, MaxPlayerHands}
PlayerVpips ==
    { <<0, 1>>, <<39, 2>>, <<20, 1>>, <<45, 2>>, <<25, 1>>, <<30, 1>>,
      <<35, 1>>, <<71, 2>>, <<100, 1>> }
PlayerAfs ==
    { <<0, 1>>, <<7, 5>>, <<3, 2>>, <<2, 1>>, <<9, 4>>, <<5, 2>>, <<13, 5>> }
GivenStats ==
    { [PlayerStats EXCEPT !.hands = n, !.vpip = v, !.af = a] :
        n \in PlayerHandCounts, v \in PlayerVpips, a \in PlayerAfs }

\* Player(name="Villain"): the stats are PlayerStats()
NewPlayer == [kind |-> "Player", name |-> "Villain", stats |-> PlayerStats]

PlayerInit == subject = NewPlayer /\ outcome = NoOutcome

\* player.update_stats(new_stats)
UpdateStats(new_stats) ==
    /\ subject' = [subject EXCEPT !.stats = new_stats]
    /\ outcome' = [method |-> "update_stats"]

\* a classification method is called on the player
CallIsTight ==
    outcome' = [method |-> "is_tight", value |-> is_tight(subject)] /\ UNCHANGED subject
CallIsLoose ==
    outcome' = [method |-> "is_loose", value |-> is_loose(subject)] /\ UNCHANGED subject
CallIsAggressive ==
    outcome' = [method |-> "is_aggressive", value |-> is_aggressive(subject)] /\ UNCHANGED subject
CallIsPassive ==
    outcome' = [method |-> "is_passive", value |-> is_passive(subject)] /\ UNCHANGED subject
CallGetPlayerType ==
    outcome' = [method |-> "get_player_type", value |-> get_player_type(subject)]
        /\ UNCHANGED subject

PlayerNext ==
    \/ \E s \in GivenStats : UpdateStats(s)
    \/ CallIsTight
    \/ CallIsLoose
    \/ CallIsAggressive
    \/ CallIsPassive
    \/ CallGetPlayerType

(***************************************************************************)
(* Serialization.  An object is a record of its fields plus kind, its      *)
(* class; a dict is a record of its keys.  An Optional number or datetime  *)
(* is <<>> for None and <<x>> for x; a datetime is [t |-> instant] and its *)
(* ISO string [iso |-> instant].                                           *)
(***************************************************************************)
\* datetime.isoformat and datetime.fromisoformat
isoformat(dt) == [iso |-> dt.t]
fromisoformat(s) == [t |-> s.iso]
\* datetime.now() at the time from_dict runs
Now == [t |-> 99]

\* data.get(key, default)
Get(data, key, default) == IF key \in DOMAIN data THEN data[key] ELSE default

\* HandRecord.to_dict
HandRecord_to_dict(h) ==
    [hand_id |-> h.hand_id,
     session_id |-> h.session_id,
     timestamp |-> isoformat(h.timestamp),
     hero_cards |-> h.hero_cards,
     board |-> h.board,
     players |-> h.players,
     hero_position |-> h.hero_position,
     small_blind |-> h.small_blind,
     big_blind |-> h.big_blind,
     actions |-> h.actions,
     result_bb |-> h.result_bb,
     winner |-> h.winner,
     went_to_showdown |-> h.went_to_showdown,
     ai_action |-> h.ai_action,
     ai_reasoning |-> h.ai_reasoning,
     ai_confidence |-> h.ai_confidence]

\* HandRecord.from_dict, with every field of the dataclass
HandRecord_from_dict(data) ==
    [kind |-> "HandRecord",
     hand_id |-> Get(data, "hand_id", "fresh-id"),
     session_id |-> Get(data, "session_id", None),
     timestamp |-> IF "timestamp" \in DOMAIN data
                   THEN fromisoformat(data.timestamp) ELSE Now,
     hero_cards |-> Get(data, "hero_cards", <<>>),
     board |-> Get(data, "board", <<>>),
     players |-> Get(data, "players", <<>>),
     hero_position |-> Get(data, "hero_position", None),
     small_blind |-> Get(data, "small_blind", 0),
     big_blind |-> Get(data, "big_blind", 0),
     actions |-> Get(data, "actions", <<>>),
     result_bb |-> Get(data, "result_bb", 0),
     winner |-> Get(data, "winner", None),
     went_to_showdown |-> Get(data, "went_to_showdown", FALSE),
     ai_action |-> Get(data, "ai_action", None),
     ai_reasoning |-> Get(data, "ai_reasoning", None),
     ai_confidence |-> Get(data, "ai_confidence", <<>>)]

\* Session.to_dict
Session_to_dict(s) ==
    [session_id |-> s.session_id,
     start_time |-> isoformat(s.start_time),
     end_time |-> IF s.end_time # <<>> THEN <<isoformat(s.end_time[1])>> ELSE <<>>,
     hands_played |-> s.hands_played,
     profit_bb |-> s.profit_bb,
     notes |-> s.notes]

\* Session.from_dict; int() and float() leave a whole number as it is
Session_from_dict(data) ==
    [kind |-> "Session",
     session_id |-> Get(data, "session_id", "fresh-id"),
     start_time |-> IF "start_time" \in DOMAIN data
                    THEN fromisoformat(data.start_time) ELSE Now,
     end_time |-> IF Get(data, "end_time", <<>>) # <<>>
                  THEN <<fromisoformat(data.end_time[1])>> ELSE <<>>,
     hands_played |-> Get(data, "hands_played", 0),
     profit_bb |-> Get(data, "profit_bb", 0),
     notes |-> Get(data, "notes", "")]

\* the counters of PlayerStats
CounterFields ==
    {"vpip_opportunities", "vpip_count", "pfr_opportunities", "pfr_count",
     "three_bet_opportunities", "three_bet_count", "fold_to_3bet_opportunities",
     "fold_to_3bet_count", "bets_raises", "calls", "showdown_opportunities",
     "showdown_count", "showdown_wins", "cbet_opportunities", "cbet_count"}

\* PlayerStats() with all its fields: the statistics, the counters and the
\* per-position breakdown
PlayerStatsObject ==
    [kind |-> "PlayerStats",
     stats |-> PlayerStats,
     counters |-> [c \in CounterFields |-> 0],
     stats_by_position |-> <<>>]

\* PlayerStats.to_dict: the nine statistics
PlayerStats_to_dict(p) ==
    [hands |-> p.stats.hands, vpip |-> p.stats.vpip, pfr |-> p.stats.pfr,
     three_bet |-> p.stats.three_bet, fold_to_3bet |-> p.stats.fold_to_3bet,
     af |-> p.stats.af, wtsd |-> p.stats.wtsd, wssd |-> p.stats.wssd,
     cbet |-> p.stats.cbet]

\* PlayerStats.from_dict: a fresh PlayerStats on which every key of the dict
\* that names an attribute is set
PlayerStats_from_dict(data) ==
    [kind |-> "PlayerStats",
     stats |-> [f \in DOMAIN PlayerStats |-> Get(data, f, PlayerStats[f])],
     counters |-> [c \in CounterFields |-> Get(data, c, 0)],
     stats_by_position |-> Get(data, "stats_by_position", <<>>)]

\* the objects that are serialized
SerialActions ==
    { [player |-> "Hero", action_type |-> "raise", amount |-> Amount(10),
       street |-> "preflop", timestamp |-> isoformat([t |-> 3])] }
HandRecordObjects ==
    { [kind |-> "HandRecord", hand_id |-> "a1b2c3d4", session_id |-> sid,
       timestamp |-> [t |-> 1], hero_cards |-> cards, board |-> <<>>,
       players |-> <<"Hero", "Villain">>, hero_position |-> pos,
       small_blind |-> 1, big_blind |-> 2, actions |-> acts,
       result_bb |-> r, winner |-> w, went_to_showdown |-> sd,
       ai_action |-> None, ai_reasoning |-> None, ai_confidence |-> conf] :
        sid \in {None, "s1"}, cards \in {<<>>, <<"Ah", "Kd">>},
        pos \in {None, "BTN"},
        acts \in UNION { [1..n -> SerialActions] : n \in 0..MaxSerialActions },
        r \in {-4, 10}, w \in {None, "Hero"}, sd \in BOOLEAN,
        conf \in {<<>>, <<1>>} }
SessionObjects ==
    { [kind |-> "Session", session_id |-> "e5f6a7b8", start_time |-> [t |-> 1],
       end_time |-> e, hands_played |-> n, profit_bb |-> p, notes |-> notes] :
        e \in {<<>>, <<[t |-> 2]>>}, n \in {0, 2}, p \in {-4, 0, 6},
        notes \in {"", "late"} }
PlayerStatsObjects ==
    { [PlayerStatsObject EXCEPT
           !.stats = [PlayerStats EXCEPT !.hands = n, !.vpip = v],
           !.counters = [@ EXCEPT !["vpip_count"] = c],
           !.stats_by_position = b] :
        n \in {0, 5}, v \in {Zero, <<40, 1>>}, c \in {0, 2},
        b \in {<<>>, [BTN |-> [vpip |-> <<50, 1>>]]} }

SerialInit ==
    /\ subject \in HandRecordObjects \cup SessionObjects \cup PlayerStatsObjects
    /\ outcome = NoOutcome

\* HandRecord.from_dict(h.to_dict())
RoundTripHandRecord ==
    /\ subject.kind = "HandRecord"
    /\ outcome' = [method |-> "round_trip",
                   value |-> HandRecord_from_dict(HandRecord_to_dict(subject))]
    /\ UNCHANGED subject

\* Session.from_dict(s.to_dict())
RoundTripSession ==
    /\ subject.kind = "Session"
    /\ outcome' = [method |-> "round_trip",
                   value |-> Session_from_dict(Session_to_dict(subject))]
    /\ UNCHANGED subject

\* PlayerStats.from_dict(p.to_dict())
RoundTripPlayerStats ==
    /\ subject.kind = "PlayerStats"
    /\ outcome' = [method |-> "round_trip",
                   value |-> PlayerStats_from_dict(PlayerStats_to_dict(subject))]
    /\ UNCHANGED subject

SerialNext ==
    \/ RoundTripHandRecord
    \/ RoundTripSession
    \/ RoundTripPlayerStats

(***************************************************************************)
(* Streets: HandRecord.add_action takes the street as an argument;         *)
(* GameState.add_action takes it from the state's current street.          *)
(***************************************************************************)
\* street_order of advance_street; the Street enum in its order
street_order == <<"preflop", "flop", "turn", "river">>
Streets == { street_order[i] : i \in 1..Len(street_order) }

\* street_order.index(street)
StreetIndex(street) == CHOOSE i \in 1..Len(street_order) : street_order[i] = street

\* GameState(): the street is preflop, no action yet
NewGameState == [kind |-> "GameState", street |-> "preflop", actions |-> <<>>]

StreetsInit == record = BlankRecord /\ subject = NewGameState

\* record.add_action("Hero", "bet", None, street)
RecordAddAction(street) ==
    /\ Len(record.actions) < MaxStreetActions
    /\ record' = [record EXCEPT !.actions =
                     Append(@, [player |-> "Hero", action_type |-> "bet",
                                amount |-> NoAmount, street |-> street])]
    /\ UNCHANGED subject

\* GameState.add_action("Hero", "bet"): the action carries the current street
GameAddAction ==
    /\ Len(subject.actions) < MaxStreetActions
    /\ subject' = [subject EXCEPT !.actions =
                      Append(@, [player |-> "Hero", action_type |-> "bet",
                                 amount |-> NoAmount, street |-> subject.street])]
    /\ UNCHANGED record

\* GameState.advance_street: the next street, the river stays
advance_street ==
    /\ subject' = IF StreetIndex(subject.street) < Len(street_order)
                  THEN [subject EXCEPT !.street = street_order[StreetIndex(subject.street) + 1]]
                  ELSE subject
    /\ UNCHANGED record

\* GameState.reset: preflop again, the actions dropped
GameReset ==
    /\ subject' = [subject EXCEPT !.street = "preflop", !.actions = <<>>]
    /\ UNCHANGED record

StreetsNext ==
    \/ \E street \in Streets : RecordAddAction(street)
    \/ GameAddAction
    \/ advance_street
    \/ GameReset

(***************************************************************************)
(* Two threads on one HandHistory.  The class holds no lock, so the        *)
(* statements of end_hand run one at a time, and the reading thread may    *)
(* run between any two of them.                                            *)
(***************************************************************************)
\* a store of capacity 1..MaxCap
ThreadInit ==
    /\ max_hands \in 1..MaxCap
    /\ hands = <<>>
    /\ current_hand = NoHand
    /\ next_oid = 1
    /\ finalized = <<>>
    /\ pairs_only = TRUE

\* the mutating thread calls start_new_hand
WriterStartNewHand ==
    /\ writer.at = "idle"
    /\ next_oid <= MaxThreadHands
    /\ StartNewHand
    /\ UNCHANGED <<writer, observed, last_call>>

\* the mutating thread adds an action to the open hand
WriterAddAction(a) ==
    /\ writer.at = "idle"
    /\ current_hand # NoHand
    /\ AddActionToOpenHand(a)
    /\ UNCHANGED <<writer, observed>>

\* the mutating thread calls end_hand(result_bb, winner): if self._current_hand
EndHandEnter(result_bb, winner) ==
    /\ writer.at = "idle"
    /\ writer' = IF current_hand # NoHand
                 THEN [at |-> "set_result", result_bb |-> result_bb, winner |-> winner]
                 ELSE WriterIdle
    /\ UNCHANGED <<storeVars, observed, last_call>>

\* self._current_hand.result_bb = result_bb
EndHandSetResult ==
    /\ writer.at = "set_result"
    /\ current_hand' = [current_hand EXCEPT !.result_bb = writer.result_bb]
    /\ writer' = [writer EXCEPT !.at = "set_winner"]
    /\ UNCHANGED <<max_hands, hands, next_oid, finalized, pairs_only, observed, last_call>>

\* self._current_hand.winner = winner
EndHandSetWinner ==
    /\ writer.at = "set_winner"
    /\ current_hand' = [current_hand EXCEPT !.winner = writer.winner]
    /\ writer' = [writer EXCEPT !.at = "append"]
    /\ UNCHANGED <<max_hands, hands, next_oid, finalized, pairs_only, observed, last_call>>

\* self._hands.append(self._current_hand)
EndHandAppend ==
    /\ writer.at = "append"
    /\ hands' = Append(hands, current_hand)
    /\ finalized' = Append(finalized, current_hand)
    /\ writer' = [writer EXCEPT !.at = "trim"]
    /\ UNCHANGED <<max_hands, current_hand, next_oid, pairs_only, observed, last_call>>

\* if len(self._hands) > self._max_hands: self._hands = self._hands[-self._max_hands:]
EndHandTrim ==
    /\ writer.at = "trim"
    /\ hands' = IF Len(hands) > max_hands THEN SliceLast(hands, max_hands) ELSE hands
    /\ writer' = [writer EXCEPT !.at = "release"]
    /\ UNCHANGED <<max_hands, current_hand, next_oid, finalized, pairs_only, observed, last_call>>

\* self._current_hand = None, and end_hand returns
EndHandRelease ==
    /\ writer.at = "release"
    /\ current_hand' = NoHand
    /\ writer' = WriterIdle
    /\ last_call' = ReturnedWith("end_hand", <<writer.result_bb, writer.winner>>)
    /\ UNCHANGED <<max_hands, hands, next_oid, finalized, pairs_only, observed>>

\* the reading thread calls get_hands_count, get_total_profit_bb, hands and
\* current_hand
ReaderReads ==
    /\ observed' = [taken |-> TRUE,
                    during |-> writer.at,
                    max_hands |-> max_hands,
                    count |-> get_hands_count,
                    profit |-> get_total_profit_bb,
                    closed |-> { hands[i].oid : i \in 1..Len(hands) },
                    open |-> IF current_hand # NoHand THEN {current_hand.oid} ELSE {}]
    /\ UNCHANGED <<storeVars, writer, last_call>>

ThreadNext ==
    \/ WriterStartNewHand
    \/ \E a \in TrackActions : WriterAddAction(a)
    \/ \E r \in TrackResults, w \in TrackWinners : EndHandEnter(r, w)
    \/ EndHandSetResult
    \/ EndHandSetWinner
    \/ EndHandAppend
    \/ EndHandTrim
    \/ EndHandRelease
    \/ ReaderReads

vars == <<max_hands, hands, current_hand, next_oid, finalized, pairs_only,
         in_hands, in_player, stats, player_cache, memo,
         current_session, hand_history, sessions, csv_files, record, summary, writer, observed, subject, outcome, last_call>>

\* a store as constructed and not used
StoreIdle ==
    /\ max_hands = 0 /\ hands = <<>> /\ current_hand = NoHand
    /\ next_oid = 1 /\ finalized = <<>> /\ pairs_only = TRUE

\* no calculator call made or prepared
StatsIdle ==
    /\ in_hands = <<>> /\ in_player = None /\ stats = NoStats
    /\ player_cache = EmptyCache /\ memo = NoMemo

\* no session manager constructed
ManagerIdle ==
    /\ current_session = NoSession /\ hand_history = FALSE
    /\ sessions = <<>> /\ csv_files = [sessions |-> <<>>, hands |-> <<>>]

\* no summary asked for, no call recorded
NothingCalled ==
    /\ record = BlankRecord /\ summary = NoSummary /\ last_call = NoCall
    /\ writer = WriterIdle /\ observed = NothingSeen
    /\ subject = NoSubject /\ outcome = NoOutcome

StoreNext ==
    \/ StartNewHand
    \/ \E r \in ResultValues, w \in Winners : EndHand(r, w)
    \/ Clear
    \/ \E data \in LoadLists : LoadFromList(data)

\* the store alone: the calculator's variables stay put
Init == StoreInit /\ StatsIdle /\ ManagerIdle /\ NothingCalled
Next == StoreNext /\ UNCHANGED <<statsVars, managerVars, summaryVars, threadVars, methodVars, last_call>>
Spec == Init /\ [][Next]_vars

\* the store with the open hand edited by the caller

TrackNext ==
    \/ next_oid <= MaxTracked /\ StartNewHand /\ last_call' = Returned("start_new_hand")
    \/ \E a \in TrackActions : AddActionToOpenHand(a)
    \/ MarkOpenShowdown
    \/ \E r \in TrackResults, w \in TrackWinners :
          EndHand(r, w) /\ last_call' = ReturnedWith("end_hand", <<r, w>>)

\* ... and with the record start_new_hand returned kept by the caller
HeldNext ==
    \/ next_oid <= MaxHeld /\ StartNewHand /\ last_call' = Returned("start_new_hand")
    \/ \E a \in TrackActions : AddActionToOpenHand(a)
    \/ MarkOpenShowdown
    \/ \E r \in TrackResults, w \in TrackWinners :
          EndHand(r, w) /\ last_call' = ReturnedWith("end_hand", <<r, w>>)
    \/ \E a \in TrackActions : AddActionToReturnedHand(a)
    \/ ReadStore
    \/ Clear /\ last_call' = Returned("clear")

InitHeld == StoreInit /\ StatsIdle /\ ManagerIdle /\ NothingCalled
NextHeld == HeldNext /\ UNCHANGED <<statsVars, managerVars, summaryVars, threadVars, methodVars>>
SpecHeld == InitHeld /\ [][NextHeld]_vars

InitTrack == StoreInit /\ StatsIdle /\ ManagerIdle /\ NothingCalled
NextTrack == TrackNext /\ UNCHANGED <<statsVars, managerVars, summaryVars, threadVars, methodVars>>
SpecTrack == InitTrack /\ [][NextTrack]_vars

\* the session manager and the store of its session
SessionNext ==
    \/ StartSession /\ last_call' = Returned("start_session")
    \/ EndSession /\ last_call' = Returned("end_session")
    \/ \E r \in ResultValues, w \in Winners :
          RecordHandResult(r, w) /\ last_call' = Returned("record_hand_result")
    \/ /\ hand_history
       /\ UNCHANGED managerVars
       /\ \/ StartNewHand /\ last_call' = Returned("start_new_hand")
          \/ \E a \in TrackActions : AddActionToOpenHand(a)
          \/ \E r \in ResultValues, w \in Winners :
                EndHand(r, w) /\ last_call' = Returned("end_hand")

\* the session manager asked for the summary of its session
LiveNext ==
    \/ /\ next_oid <= MaxLive
       /\ StartSession /\ last_call' = Returned("start_session") /\ UNCHANGED methodVars
    \/ /\ EndSession /\ last_call' = Returned("end_session") /\ UNCHANGED methodVars
    \/ /\ \E r \in TrackResults, w \in TrackWinners : RecordHandResult(r, w)
       /\ last_call' = Returned("record_hand_result") /\ UNCHANGED methodVars
    \/ /\ hand_history /\ next_oid <= MaxLive
       /\ StartNewHand /\ last_call' = Returned("start_new_hand")
       /\ UNCHANGED <<managerVars, methodVars>>
    \/ GetSessionSummary

InitLive == ManagerInit /\ StoreIdle /\ StatsIdle /\ NothingCalled
NextLive == LiveNext /\ UNCHANGED <<statsVars, summaryVars, threadVars>>
SpecLive == InitLive /\ [][NextLive]_vars

\* one long session: every hand is started and recorded with the same result
LongResult == 10

\* self.hand_history.start_new_hand(), once the hand before was recorded
LongStartNewHand ==
    /\ hand_history
    /\ current_hand = NoHand
    /\ Len(finalized) < MaxLongHands
    /\ current_hand' = NewHandRecord(next_oid)
    /\ next_oid' = next_oid + 1
    /\ last_call' = Returned("start_new_hand")
    /\ UNCHANGED <<max_hands, hands, finalized, pairs_only, managerVars>>

LongNext ==
    \/ /\ current_session = NoSession /\ next_oid = 1
       /\ StartSession /\ last_call' = Returned("start_session")
    \/ LongStartNewHand
    \/ /\ current_hand # NoHand
       /\ RecordHandResult(LongResult, None)
       /\ last_call' = Returned("record_hand_result")
    \/ /\ current_session # NoSession
       /\ EndSession /\ last_call' = Returned("end_session")

InitLong == ManagerInit /\ StoreIdle /\ StatsIdle /\ NothingCalled
NextLong == LongNext /\ UNCHANGED <<statsVars, summaryVars, threadVars, methodVars>>
SpecLong == InitLong /\ [][NextLong]_vars

InitSession == ManagerInit /\ StoreIdle /\ StatsIdle /\ NothingCalled
NextSession == SessionNext /\ UNCHANGED <<statsVars, summaryVars, threadVars, methodVars>>
SpecSession == InitSession /\ [][NextSession]_vars

\* the calculator alone, on a store that stays as constructed
InitStats == StatsInit /\ StoreIdle /\ ManagerIdle /\ NothingCalled
NextStats == StatsNext /\ UNCHANGED <<storeVars, managerVars, summaryVars, threadVars, methodVars, last_call>>
SpecStats == InitStats /\ [][NextStats]_vars

\* the calculator on one hand
InitScan == ScanInit /\ StoreIdle /\ ManagerIdle /\ NothingCalled
NextScan == ScanNext /\ UNCHANGED <<storeVars, managerVars, summaryVars, threadVars, methodVars, last_call>>
SpecScan == InitScan /\ [][NextScan]_vars

\* the calculator on one hand with a raising sequence
InitRaises == ScanInit /\ StoreIdle /\ ManagerIdle /\ NothingCalled
NextRaises == RaisesNext /\ UNCHANGED <<storeVars, managerVars, summaryVars, threadVars, methodVars, last_call>>
SpecRaises == InitRaises /\ [][NextRaises]_vars

\* the calculator on one hand with malformed action dicts
InitMalformed == ScanInit /\ StoreIdle /\ ManagerIdle /\ NothingCalled
NextMalformed == MalformedNext /\ UNCHANGED <<storeVars, managerVars, summaryVars, threadVars, methodVars, last_call>>
SpecMalformed == InitMalformed /\ [][NextMalformed]_vars

\* the classification methods of one player
InitPlayer ==
    /\ PlayerInit /\ StoreIdle /\ StatsIdle /\ ManagerIdle
    /\ record = BlankRecord /\ summary = NoSummary /\ last_call = NoCall
    /\ writer = WriterIdle /\ observed = NothingSeen
NextPlayer ==
    PlayerNext /\ UNCHANGED <<storeVars, statsVars, managerVars, summaryVars, threadVars, last_call>>
SpecPlayer == InitPlayer /\ [][NextPlayer]_vars

\* serialization round trips
InitSerial ==
    /\ SerialInit /\ StoreIdle /\ StatsIdle /\ ManagerIdle
    /\ record = BlankRecord /\ summary = NoSummary /\ last_call = NoCall
    /\ writer = WriterIdle /\ observed = NothingSeen
NextSerial ==
    SerialNext /\ UNCHANGED <<storeVars, statsVars, managerVars, summaryVars, threadVars, last_call>>
SpecSerial == InitSerial /\ [][NextSerial]_vars

\* streets of added actions
InitStreets ==
    /\ StreetsInit /\ StoreIdle /\ StatsIdle /\ ManagerIdle
    /\ summary = NoSummary /\ last_call = NoCall /\ outcome = NoOutcome
    /\ writer = WriterIdle /\ observed = NothingSeen
NextStreets ==
    StreetsNext /\ UNCHANGED <<storeVars, statsVars, managerVars, summary, threadVars,
                              outcome, last_call>>
SpecStreets == InitStreets /\ [][NextStreets]_vars

\* two threads on one store
InitThreads ==
    /\ ThreadInit /\ StatsIdle /\ ManagerIdle /\ NothingCalled
NextThreads == ThreadNext /\ UNCHANGED <<statsVars, managerVars, summaryVars, methodVars>>
SpecThreads == InitThreads /\ [][NextThreads]_vars

\* to_summary on one record
InitSummary ==
    /\ SummaryInit /\ StoreIdle /\ StatsIdle /\ ManagerIdle
    /\ writer = WriterIdle /\ observed = NothingSeen
    /\ subject = NoSubject /\ outcome = NoOutcome
NextSummary == SummaryNext /\ UNCHANGED <<storeVars, statsVars, managerVars, threadVars, methodVars>>
SpecSummary == InitSummary /\ [][NextSummary]_vars

\* the calculator called repeatedly
InitPure == PureInit /\ StoreIdle /\ ManagerIdle /\ NothingCalled
NextPure == PureNext /\ UNCHANGED <<storeVars, managerVars, summaryVars, threadVars, methodVars, last_call>>
SpecPure == InitPure /\ [][NextPure]_vars

(***************************************************************************)
(* Properties of the store (specification Spec).                           *)
(***************************************************************************)
\* the last n elements of s (n <= Len(s)), in order
LastN(s, n) == SubSeq(s, Len(s) - n + 1, Len(s))

\* C1: once more than max_hands hands were finalized by start_new_hand/end_hand
\* pairs, the closed list is exactly the max_hands most recently finalized
\* hands, in the order they were finalized.
C1_CapacityLaw ==
    (pairs_only /\ Len(finalized) > max_hands)
        => hands = LastN(finalized, max_hands)

\* C2: in every reachable state the closed list holds at most max_hands hands
\* (the open slot is one variable, so at most one hand is open).
C2_Bounded == Len(hands) <= max_hands

RECURSIVE SumUpTo(_, _)
\* result_bb of the first n closed hands, added up by index
SumUpTo(s, n) == IF n = 0 THEN 0 ELSE SumUpTo(s, n - 1) + s[n].result_bb

\* C3: the open hand is no element of the closed list; without clear or
\* load_from_list every closed hand is one end_hand finalized; the count is the
\* number of closed hands and the profit the sum of their result_bb, and no
\* get_recent_hands result holds the open hand.
C3_OpenHandExcluded ==
    /\ \A i \in 1..Len(hands) : hands[i].oid # current_hand.oid
    /\ pairs_only => \A i \in 1..Len(hands) :
                        \E j \in 1..Len(finalized) : finalized[j] = hands[i]
    /\ get_hands_count = Cardinality({hands[i].oid : i \in 1..Len(hands)})
    /\ get_total_profit_bb = SumUpTo(hands, Len(hands))
    /\ \A n \in 1..MaxCap :
          \A i \in 1..Len(get_recent_hands(n)) :
              get_recent_hands(n)[i].oid # current_hand.oid

\* a hand is open while closed hands with a non-zero total exist
C3_Witness ==
    /\ current_hand # NoHand
    /\ Len(hands) >= 1
    /\ get_total_profit_bb # 0

(***************************************************************************)
(* Properties of calculate_stats (specification SpecStats).                *)
(***************************************************************************)
\* calculate_stats has returned
Called == stats.hands # -1

\* the hands of the input list the player is listed in
Participated(p) == { i \in 1..Len(in_hands) : p \in in_hands[i].players }

\* the player has an action of one of the types on the street in hand h
HasAction(p, h, street, types) ==
    \E k \in 1..Len(h.actions) :
        /\ h.actions[k].player = p
        /\ h.actions[k].street = street
        /\ h.actions[k].action_type \in types

\* the positions of the player's preflop actions in hand h
PreflopActionsOf(p, h) ==
    { k \in 1..Len(h.actions) :
        h.actions[k].player = p /\ h.actions[k].street = "preflop" }

\* the type of the player's first preflop action in hand h is one of types
FirstPreflopActionIn(p, h, types) ==
    \E k \in PreflopActionsOf(p, h) :
        /\ \A m \in PreflopActionsOf(p, h) : k <= m
        /\ h.actions[k].action_type \in types

\* the value of a percentage or ratio lies in [0, 100], resp. is >= 0
InPercentRange(r) == r[2] > 0 /\ 0 <= r[1] /\ r[1] <= 100 * r[2]
NonNegative(r) == r[2] > 0 /\ r[1] >= 0

\* C4: stats.hands is the number of hands of the list with the player in players.
C4_HandsCount ==
    Called => stats.hands = Cardinality(Participated(in_player))

\* two hands were passed and the player is listed in one of them
C4_Witness ==
    Called /\ Len(in_hands) = 2 /\ stats.hands = 1

\* the counters a hand adds to each percentage statistic, <<opportunities, count>>
HandCounters(p, h) ==
    { <<OneOpportunity(p, h), VpipCount(p, h)>>,
      <<OneOpportunity(p, h), PfrCount(p, h)>>,
      <<ThreeBetOpportunity(p, h), ThreeBetCount(p, h)>>,
      <<FoldTo3betOpportunity(p, h), FoldTo3betCount(p, h)>>,
      <<SawFlop(p, h), WentToShowdown(p, h)>>,
      <<Showdown(p, h), ShowdownWin(p, h)>>,
      <<CbetOpportunity(p, h), CbetCount(p, h)>> }

C7_ZeroOpportunity ==
    Called =>
        LET p == in_player
            hs == PlayerHands(p, in_hands)
        IN /\ Participated(p) = {} => stats = PlayerStats
           /\ three_bet_counters(p, hs).opportunities = 0 => stats.three_bet = Zero
           /\ fold_to_3bet_counters(p, hs).opportunities = 0 => stats.fold_to_3bet = Zero
           /\ wtsd_counters(p, hs).opportunities = 0 => stats.wtsd = Zero
           /\ wssd_counters(p, hs).opportunities = 0 => stats.wssd = Zero
           /\ cbet_counters(p, hs).opportunities = 0 => stats.cbet = Zero
           /\ (af_counters(p, hs).calls = 0 /\ af_counters(p, hs).bets_raises = 0)
                 => stats.af = Zero

\* the list holds a hand with a raise of Hero, who is listed in none of its hands
C7_Witness ==
    /\ Called /\ in_player = "Hero" /\ stats = PlayerStats
    /\ \E i \in 1..Len(in_hands) :
          HasAction("Hero", in_hands[i], "preflop", {"raise"})

\* the hands S among the hands the player is listed in, as a percentage
PercentOfHands(p, S) ==
    Percentage(Cardinality(S \cap Participated(p)), Cardinality(Participated(p)))

FirstPreflopVoluntary(p, h) == FirstPreflopActionIn(p, h, {"call", "bet", "raise"})
AnyPreflopVoluntary(p, h) == HasAction(p, h, "preflop", {"call", "bet", "raise"})
AnyPreflopRaise(p, h) == HasAction(p, h, "preflop", {"raise"})

\* C8 as stated: vpip is the percentage of the player's hands in which the
\* player's first preflop action is call, bet or raise.
C8_VpipFirstAction ==
    Called => stats.vpip =
        PercentOfHands(in_player,
            { i \in 1..Len(in_hands) : FirstPreflopVoluntary(in_player, in_hands[i]) })

\* C8 as amended: vpip is the percentage of the player's hands in which at
\* least one preflop action of the player is call, bet or raise.
C8_VpipAnyAction ==
    Called => stats.vpip =
        PercentOfHands(in_player,
            { i \in 1..Len(in_hands) : AnyPreflopVoluntary(in_player, in_hands[i]) })

\* two hands of Hero: check and then call preflop in one, nothing voluntary in the other
C8_Witness ==
    /\ Called /\ in_player = "Hero" /\ stats.vpip = <<50, 1>>
    /\ \E i \in Participated("Hero") :
          /\ ~FirstPreflopVoluntary("Hero", in_hands[i])
          /\ AnyPreflopVoluntary("Hero", in_hands[i])

\* C9: pfr is the percentage of the player's hands in which the player has an
\* action with street preflop and type raise.
C9_Pfr ==
    Called => stats.pfr =
        PercentOfHands(in_player,
            { i \in 1..Len(in_hands) : AnyPreflopRaise(in_player, in_hands[i]) })

\* Hero called and then raised preflop in one hand and did not raise in another
C9_Witness ==
    /\ Called /\ in_player = "Hero" /\ stats.pfr = <<50, 1>>
    /\ \E i \in Participated("Hero") :
          /\ AnyPreflopRaise("Hero", in_hands[i])
          /\ ~FirstPreflopActionIn("Hero", in_hands[i], {"raise"})

(***************************************************************************)
(* Properties of the 3-bet scan (specification SpecScan).                  *)
(***************************************************************************)
\* the preflop actions of a hand, in order
PreflopActions(h) == SelectSeq(h.actions, LAMBDA a : a.street = "preflop")

\* the actions of a hand before its first action that is not preflop
RECURSIVE PreflopPrefix(_)
PreflopPrefix(acts) ==
    IF acts = <<>> \/ acts[1].street # "preflop" THEN <<>>
    ELSE <<acts[1]>> \o PreflopPrefix(Tail(acts))

RaiseByOther(p, a) == a.action_type = "raise" /\ a.player # p

\* in the sequence P, position j holds the first action of p after the first
\* raise by another player that p acts after
AnswersRaise(p, P, j) ==
    \E i \in 1..Len(P) :
        /\ RaiseByOther(p, P[i]) /\ i < j /\ j <= Len(P) /\ P[j].player = p
        /\ \A m \in (i + 1)..(j - 1) : P[m].player # p
        /\ \A m \in 1..(i - 1) :
              ~(RaiseByOther(p, P[m]) /\ \E n \in (m + 1)..Len(P) : P[n].player = p)

\* in the sequence P, position j holds the first action of p, after a raise by
\* another player
FirstActionFacesRaise(p, P, j) ==
    /\ j \in 1..Len(P) /\ P[j].player = p
    /\ \A m \in 1..(j - 1) : P[m].player # p
    /\ \E i \in 1..(j - 1) : RaiseByOther(p, P[i])

\* the 3-bet counters hand h adds for player p are 1 exactly when opp, occ hold
ThreeBetCountersAre(p, h, opp, occ) ==
    /\ ThreeBetOpportunity(p, h) = (IF opp THEN 1 ELSE 0)
    /\ ThreeBetCount(p, h) = (IF occ THEN 1 ELSE 0)

StatedOpportunity(p, h) ==
    \E j \in 1..Len(PreflopActions(h)) : AnswersRaise(p, PreflopActions(h), j)
StatedOccurrence(p, h) ==
    \E j \in 1..Len(PreflopActions(h)) :
        AnswersRaise(p, PreflopActions(h), j) /\ PreflopActions(h)[j].action_type = "raise"

AmendedOpportunity(p, h) ==
    \E j \in 1..Len(PreflopPrefix(h.actions)) :
        FirstActionFacesRaise(p, PreflopPrefix(h.actions), j)
AmendedOccurrence(p, h) ==
    \E j \in 1..Len(PreflopPrefix(h.actions)) :
        /\ FirstActionFacesRaise(p, PreflopPrefix(h.actions), j)
        /\ PreflopPrefix(h.actions)[j].action_type = "raise"

FacesReRaise(p, P, r, t, j) ==
    /\ r \in 1..Len(P) /\ t \in 1..Len(P) /\ j \in 1..Len(P) /\ r < t /\ t < j
    /\ P[r].player = p /\ P[r].action_type = "raise"
    /\ \A m \in 1..(r - 1) : ~(P[m].player = p /\ P[m].action_type = "raise")
    /\ RaiseByOther(p, P[t])
    /\ \A m \in (r + 1)..(t - 1) : ~RaiseByOther(p, P[m])
    /\ P[j].player = p
    /\ \A m \in (t + 1)..(j - 1) : P[m].player # p

\* the raise at position r is the first raise of the sequence
FirstRaiseOfHand(p, P, r) == \A m \in 1..(r - 1) : ~RaiseByOther(p, P[m])

\* p made the first preflop raise of the hand, was raised by another player,
\* and acted after it
OpenedAndFacedRaise(p, h) ==
    LET P == PreflopPrefix(h.actions)
    IN \E r, t, j \in 1..Len(P) :
          FacesReRaise(p, P, r, t, j) /\ FirstRaiseOfHand(p, P, r)

\* ... and that action of p is a fold
OpenedAndFoldedToRaise(p, h) ==
    LET P == PreflopPrefix(h.actions)
    IN \E r, t, j \in 1..Len(P) :
          /\ FacesReRaise(p, P, r, t, j) /\ FirstRaiseOfHand(p, P, r)
          /\ P[j].action_type = "fold"

\* C11: a hand is a fold-to-3-bet opportunity only if the player made the first
\* preflop raise of the hand and then faced a raise of another player; it is an
\* occurrence iff, besides, the player's next action after that raise is fold.
C11_FoldTo3bet ==
    Called =>
        \A i \in Participated(in_player) :
            LET h == in_hands[i]
            IN /\ FoldTo3betOpportunity(in_player, h) = 1
                     => OpenedAndFacedRaise(in_player, h)
               /\ FoldTo3betCount(in_player, h) = 1
                     <=> OpenedAndFoldedToRaise(in_player, h)

(***************************************************************************)
(* Properties of the remaining statistics (specification SpecStats).       *)
(***************************************************************************)
\* the actions of the given types of p, as <<hand, position>>, in the hands p
\* is listed in, on any street
ActionsOfTypes(p, types) ==
    UNION { { <<i, k>> : k \in { n \in 1..Len(in_hands[i].actions) :
                                    /\ in_hands[i].actions[n].player = p
                                    /\ in_hands[i].actions[n].action_type \in types } }
            : i \in Participated(p) }

\* C12: with B the player's bet and raise actions and C the player's call
\* actions over all hands of the player, af is B / C when C > 0, B when C = 0
\* and B > 0, and 0 when both are 0.
C12_AggressionFactor ==
    Called =>
        LET B == Cardinality(ActionsOfTypes(in_player, {"bet", "raise"}))
            C == Cardinality(ActionsOfTypes(in_player, {"call"}))
        IN /\ C > 0 => stats.af[1] * C = B * stats.af[2]
           /\ (C = 0 /\ B > 0) => stats.af = <<B, 1>>
           /\ (C = 0 /\ B = 0) => stats.af = <<0, 1>>
           /\ stats.af[2] > 0

\* no call, and a flop bet in one hand and a preflop raise in another: af is 2
C12_Witness ==
    /\ Called /\ in_player = "Hero" /\ stats.af = <<2, 1>>
    /\ Len(in_hands) = 2
    /\ HasAction("Hero", in_hands[1], "flop", {"bet"})
    /\ HasAction("Hero", in_hands[2], "preflop", {"raise"})

\* the hands of S among the hands of T, as a percentage (0 when T is empty)
PercentOf(S, T) == Percentage(Cardinality(S \cap T), Cardinality(T))

\* the hands p is listed in and has an action on the street in
HandsWithActionOn(p, street) ==
    { i \in Participated(p) : HasAction(p, in_hands[i], street, ActionTypes) }

\* C13: wtsd is the percentage, among the player's hands with a flop action of
\* the player, of those whose went_to_showdown is true.
C13_Wtsd ==
    Called =>
        stats.wtsd =
            PercentOf({ i \in Participated(in_player) : in_hands[i].went_to_showdown },
                      HandsWithActionOn(in_player, "flop"))

\* of two hands of Hero one has a flop action of Hero and went to showdown
C13_Witness ==
    /\ Called /\ in_player = "Hero" /\ stats.wtsd = <<100, 1>>
    /\ Cardinality(Participated("Hero")) = 2
    /\ Cardinality(HandsWithActionOn("Hero", "flop")) = 1

(***************************************************************************)
(* Properties of the continuation-bet scan (specification SpecScan).       *)
(***************************************************************************)
\* p raised before the flop, among the actions before the first one that is
\* not preflop
RaisedPreflop(p, h) ==
    \E k \in 1..Len(PreflopPrefix(h.actions)) :
        /\ PreflopPrefix(h.actions)[k].player = p
        /\ PreflopPrefix(h.actions)[k].action_type = "raise"

\* ... and no other player did
SolePreflopRaiser(p, h) ==
    /\ RaisedPreflop(p, h)
    /\ \A k \in 1..Len(PreflopPrefix(h.actions)) :
          ~RaiseByOther(p, PreflopPrefix(h.actions)[k])

\* the positions of the flop actions of p in hand h
FlopActionsOf(p, h) ==
    { k \in 1..Len(h.actions) : h.actions[k].player = p /\ h.actions[k].street = "flop" }

\* the first flop action of p in hand h is a bet or a raise
FirstFlopActionAggressive(p, h) ==
    \E k \in FlopActionsOf(p, h) :
        /\ \A m \in FlopActionsOf(p, h) : k <= m
        /\ h.actions[k].action_type \in {"bet", "raise"}

\* C14: a hand is a c-bet opportunity iff the player was the sole preflop
\* raiser and has a flop action; it is an occurrence iff, besides, the player's
\* first flop action is a bet or a raise.
C14_Cbet ==
    Called =>
        \A i \in Participated(in_player) :
            LET h == in_hands[i]
            IN /\ CbetOpportunity(in_player, h) = 1
                     <=> (SolePreflopRaiser(in_player, h) /\ FlopActionsOf(in_player, h) # {})
               /\ CbetCount(in_player, h) = 1
                     <=> (SolePreflopRaiser(in_player, h)
                            /\ FirstFlopActionAggressive(in_player, h))

(***************************************************************************)
(* Properties of malformed input (specification SpecMalformed).            *)
(***************************************************************************)
\* the dict lacks a key, or its street is no street name
Malformed(a) ==
    \/ a.player = Missing \/ a.action_type = Missing \/ a.street = Missing
    \/ a.street \notin {"preflop", "flop", "turn", "river"}

\* the sequence s without its k-th element
RemoveAt(s, k) == SubSeq(s, 1, k - 1) \o SubSeq(s, k + 1, Len(s))

\* C15: when one action of the hand is malformed, calculate_stats returns
\* (no error value) the statistics of the same hand without that action.
C15_MalformedSkipped ==
    Called =>
        \A k \in 1..Len(in_hands[1].actions) :
            LET acts == in_hands[1].actions
            IN (/\ Malformed(acts[k])
                /\ \A m \in 1..Len(acts) : Malformed(acts[m]) => m = k)
               => stats = calculate_stats(in_player,
                              <<[in_hands[1] EXCEPT !.actions = RemoveAt(acts, k)]>>)

(***************************************************************************)
(* Properties of the session manager and its store (specification          *)
(* SpecSession).                                                           *)
(***************************************************************************)
\* the step is a call of one of the operations, made while no hand is open
CalledWithoutOpenHand(ops) ==
    current_hand = NoHand /\ last_call'.op \in ops

\* the step raises nothing and leaves the closed list, the count, the profit
\* and the empty open slot as they were
BenignNoOp ==
    /\ last_call'.raised = None
    /\ hands' = hands
    /\ Len(hands') = Len(hands)
    /\ SumResults(hands') = SumResults(hands)
    /\ current_hand' = NoHand

\* C16: while no hand is open, adding an action, end_hand and
\* record_hand_result raise no error and change neither the closed list, the
\* hand count, the total profit nor the open slot.
C16_NoOpenHandNoOps ==
    [][ CalledWithoutOpenHand({"add_action", "end_hand", "record_hand_result"})
          => BenignNoOp ]_vars

(***************************************************************************)
(* Properties of end_hand on an edited hand (specification SpecTrack).     *)
(***************************************************************************)
\* the positions of the closed hands the step removes from the closed list
Evicted ==
    { i \in 1..Len(hands) : \A j \in 1..Len(hands') : hands'[j].oid # hands[i].oid }

RECURSIVE SumAt(_, _)
\* result_bb of the hands of s at the positions of I, added up
SumAt(s, I) ==
    IF I = {} THEN 0
    ELSE LET i == CHOOSE x \in I : TRUE IN s[i].result_bb + SumAt(s, I \ {i})

\* C17: end_hand(result_bb, winner) on an open hand writes the two arguments
\* to the hand, leaves its went_to_showdown and actions alone, makes it the
\* last closed hand and empties the open slot; the count grows by one less the
\* evicted hands, the profit by result_bb less the results of the evicted hands.
C17_EndHand ==
    [][ (current_hand # NoHand /\ last_call'.op = "end_hand") =>
          /\ hands' # <<>>
          /\ hands'[Len(hands')] =
                [current_hand EXCEPT !.result_bb = last_call'.args[1],
                                     !.winner = last_call'.args[2]]
          /\ current_hand' = NoHand
          /\ Len(hands') = Len(hands) + 1 - Cardinality(Evicted)
          /\ SumResults(hands') =
                SumResults(hands) + last_call'.args[1] - SumAt(hands, Evicted) ]_vars

\* end_hand closed a hand with an action and the showdown mark, and an older
\* hand was evicted for it
C17_Witness ==
    /\ last_call.op = "end_hand" /\ current_hand = NoHand
    /\ hands # <<>> /\ Len(finalized) > Len(hands)
    /\ hands[Len(hands)].went_to_showdown
    /\ hands[Len(hands)].actions # <<>>
    /\ hands[Len(hands)].winner = "Hero"
    /\ hands[Len(hands)].result_bb = -4
    /\ finalized[1].result_bb = 10

(***************************************************************************)
(* Properties of the most-recent query (specification Spec).               *)
(***************************************************************************)
\* C18: for every n >= 0, get_recent_hands(n) is the last min(n, number of
\* closed hands) hands of the closed list, in their order.
C18_RecentHands ==
    \A n \in 0..(MaxCap + 1) :
        LET k == IF n < Len(hands) THEN n ELSE Len(hands)
        IN /\ Len(get_recent_hands(n)) = k
           /\ get_recent_hands(n) = LastN(hands, k)

C20_EndSessionTotals ==
    [][ (current_session # NoSession /\ last_call'.op = "end_session") =>
          /\ Len(sessions') = Len(sessions) + 1
          /\ LET session == sessions'[Len(sessions')]
             IN /\ session.session_id = current_session.session_id
                /\ session.hands_played = get_hands_count
                /\ session.hands_played = Len(hands)
                /\ session.profit_bb = get_total_profit_bb
                /\ session.profit_bb = SumResults(hands)
                /\ bb_per_100(session) =
                      IF Len(hands) = 0 THEN Zero
                      ELSE Ratio(100 * SumResults(hands), Len(hands)) ]_vars

\* a session of this run ended with two closed hands of +10 and -4: profit 6,
\* 300 bb per 100 hands
C20_Witness ==
    /\ last_call.op = "end_session"
    /\ sessions # <<>>
    /\ LET session == sessions[Len(sessions)]
       IN /\ session.session_id > 0
          /\ Len(finalized) = 2
          /\ finalized[1].result_bb = 10 /\ finalized[2].result_bb = -4
          /\ session.hands_played = 2
          /\ session.profit_bb = 6
          /\ bb_per_100(session) = <<300, 1>>

\* C21: the sessions list only grows at its end: end_session with a session
\* active appends exactly one entry, every other operation (end_session with
\* no session active included) leaves the list as it is, and the entries
\* already in the list keep their hands_played, profit_bb and end_time.
C21_SessionsAppendOnly ==
    [][ IF current_session # NoSession /\ last_call'.op = "end_session"
        THEN /\ Len(sessions') = Len(sessions) + 1
             /\ SubSeq(sessions', 1, Len(sessions)) = sessions
             /\ sessions'[Len(sessions')].session_id = current_session.session_id
        ELSE sessions' = sessions ]_vars

\* a session of an earlier run and a session ended in this run are in the
\* list, and a new session with a closed hand is active
C21_Witness ==
    /\ Len(sessions) = 2
    /\ sessions[1].session_id = -1
    /\ sessions[2].hands_played = 1
    /\ current_session # NoSession
    /\ hands # <<>>

(***************************************************************************)
(* Properties of two threads on one store (specification SpecThreads).     *)
(***************************************************************************)
\* C22: a thread reading the store while another thread runs end_hand,
\* start_new_hand or add_action never reads an intermediate state of the
\* mutation: never a closed list longer than max_hands, never a hand that
\* is open and in the closed list.
C22_ReaderSeesNoIntermediateState ==
    observed.taken =>
        /\ observed.count <= observed.max_hands
        /\ observed.open \cap observed.closed = {}

(***************************************************************************)
(* Properties of the classification (specification SpecPlayer).            *)
(***************************************************************************)
\* C23: is_tight is true iff hands >= 20 and vpip < 20, is_loose iff
\* hands >= 20 and vpip > 35, is_aggressive iff hands >= 20 and af > 2.5,
\* is_passive iff hands >= 20 and af < 1.5; all four are false below 20
\* hands, is_tight and is_loose are never both true, nor are is_aggressive
\* and is_passive.
C23_ClassificationPredicates ==
    LET hands_seen == subject.stats.hands
        vpip == subject.stats.vpip
        af == subject.stats.af
        enough == hands_seen >= 20
    IN /\ outcome.method = "is_tight" =>
             (outcome.value <=> (enough /\ vpip[1] < 20 * vpip[2]))
       /\ outcome.method = "is_loose" =>
             (outcome.value <=> (enough /\ vpip[1] > 35 * vpip[2]))
       /\ outcome.method = "is_aggressive" =>
             (outcome.value <=> (enough /\ 2 * af[1] > 5 * af[2]))
       /\ outcome.method = "is_passive" =>
             (outcome.value <=> (enough /\ 2 * af[1] < 3 * af[2]))
       /\ (outcome.method \in {"is_tight", "is_loose", "is_aggressive", "is_passive"}
             /\ ~enough) => ~outcome.value
       /\ ~(is_tight(subject) /\ is_loose(subject))
       /\ ~(is_aggressive(subject) /\ is_passive(subject))

\* is_tight returned False for a player with a VPIP below 20 and 19 hands
C23_Witness ==
    /\ outcome.method = "is_tight"
    /\ subject.stats.hands = 19
    /\ subject.stats.vpip = <<0, 1>>
    /\ ~outcome.value

\* C24: get_player_type returns "Unknown" iff hands < 20; otherwise it
\* returns the quadrant of tight = vpip < 25 and aggressive = af > 2.0, so a
\* player with hands >= 20 and vpip in [20, 25) is typed tight although
\* is_tight is false.
C24_PlayerType ==
    outcome.method = "get_player_type" =>
        LET vpip == subject.stats.vpip
            af == subject.stats.af
            tight == vpip[1] < 25 * vpip[2]
            aggressive == af[1] > 2 * af[2]
        IN /\ outcome.value = "Unknown" <=> subject.stats.hands < 20
           /\ subject.stats.hands >= 20 =>
                 /\ outcome.value = "TAG (Tight Aggressive)" <=> (tight /\ aggressive)
                 /\ outcome.value = "TP (Tight Passive)" <=> (tight /\ ~aggressive)
                 /\ outcome.value = "LAG (Loose Aggressive)" <=> (~tight /\ aggressive)
                 /\ outcome.value = "LP (Loose Passive)" <=> (~tight /\ ~aggressive)
                 /\ (vpip[1] >= 20 * vpip[2] /\ tight) => ~is_tight(subject)

\* a player with 20 hands and a VPIP of 22.5 is typed tight and aggressive
\* although is_tight is false
C24_Witness ==
    /\ outcome.method = "get_player_type"
    /\ subject.stats.hands = 20
    /\ subject.stats.vpip = <<45, 2>>
    /\ subject.stats.af = <<9, 4>>
    /\ outcome.value = "TAG (Tight Aggressive)"
    /\ ~is_tight(subject)

(***************************************************************************)
(* Properties of the serialization (specification SpecSerial).             *)
(***************************************************************************)
\* C25: from_dict(to_dict(x)) equals x in every field, for every HandRecord,
\* every Session and every PlayerStats, a PlayerStats with a non-empty
\* per-position breakdown included.
C25_RoundTrip ==
    outcome.method = "round_trip" => outcome.value = subject

(***************************************************************************)
(* Properties of the streets (specification SpecStreets).                  *)
(***************************************************************************)
\* the streets of the actions never go back in the order preflop < flop <
\* turn < river
StreetsNonDecreasing(actions) ==
    \A i, j \in 1..Len(actions) :
        i < j => StreetIndex(actions[i].street) <= StreetIndex(actions[j].street)

\* C26: in every hand record reachable by add_action calls the street of the
\* actions is non-decreasing along the action sequence.
C26_StreetsNonDecreasing == StreetsNonDecreasing(record.actions)

(***************************************************************************)
(* Properties of the open hand (specification SpecTrack).                  *)
(***************************************************************************)
\* the hand objects of a list
OidsOf(hs) == { hs[i].oid : i \in 1..Len(hs) }

\* the hands that were constructed, are not open and were never finalized:
\* the hands start_new_hand replaced
Discarded(open, closed_by_end_hand, next) ==
    { o \in 1..(next - 1) : o # open.oid /\ o \notin OidsOf(closed_by_end_hand) }

\* C27: start_new_hand called while a hand is open discards that hand: the
\* open slot then holds a fresh hand without actions, the closed list, the
\* hand count and the total profit are unchanged by the call, and the
\* discarded hand is not in the closed list, then or after any later end_hand.
C27_StartNewHandDiscards ==
    [][ /\ (current_hand # NoHand /\ last_call'.op = "start_new_hand") =>
              /\ current_hand' # NoHand
              /\ current_hand'.oid # current_hand.oid
              /\ current_hand'.oid \notin OidsOf(hands)
              /\ current_hand'.actions = <<>>
              /\ hands' = hands
              /\ Len(hands') = Len(hands)
              /\ SumResults(hands') = SumResults(hands)
              /\ current_hand.oid \in Discarded(current_hand', finalized', next_oid')
        /\ Discarded(current_hand', finalized', next_oid') \cap OidsOf(hands') = {} ]_vars

\* the first hand was replaced by start_new_hand while it was open; the
\* second hand was closed and is alone in the closed list
C27_Witness ==
    /\ last_call.op = "end_hand"
    /\ Len(hands) = 1
    /\ hands[1].oid = 2
    /\ Discarded(current_hand, finalized, next_oid) = {1}

(***************************************************************************)
(* Properties of closed hands (specification SpecHeld).                    *)
(***************************************************************************)
\* the closed hand is as end_hand finalized it
AsFinalized(h) ==
    \A j \in 1..Len(finalized) :
        finalized[j].oid = h.oid =>
            /\ h.result_bb = finalized[j].result_bb
            /\ h.winner = finalized[j].winner
            /\ h.went_to_showdown = finalized[j].went_to_showdown
            /\ h.actions = finalized[j].actions

\* C28: a hand finalized by end_hand keeps its result_bb, winner,
\* went_to_showdown and action sequence under every later operation, and it
\* leaves the store only through the eviction of the oldest hands by end_hand
\* or through clear.
C28_ClosedHandsImmutable ==
    [][ /\ \A i \in 1..Len(hands') : AsFinalized(hands'[i])
        /\ \A i \in 1..Len(hands) :
              hands[i].oid \notin OidsOf(hands') =>
                  \/ last_call'.op = "clear"
                  \/ /\ last_call'.op = "end_hand"
                     /\ Len(hands) + 1 > max_hands
                     /\ i <= Len(hands) + 1 - max_hands ]_vars

(***************************************************************************)
(* Properties of the summary of the active session (specification          *)
(* SpecLive).                                                              *)
(***************************************************************************)
\* C29: the summary of an active session has the store's current count as
\* hands_played and its current total as profit_bb, and its bb_per_100 is
\* 100 * profit_bb / hands_played of that same summary, 0 with no hand played.
C29_SessionSummaryConsistent ==
    [][ (current_session # NoSession /\ last_call'.op = "get_session_summary") =>
          LET s == outcome'.value
          IN /\ s.returned
             /\ s.hands_played = get_hands_count
             /\ s.profit_bb = get_total_profit_bb
             /\ s.bb_per_100 =
                   IF s.hands_played = 0 THEN Zero
                   ELSE Ratio(100 * s.profit_bb, s.hands_played) ]_vars

(***************************************************************************)
(* Properties of the totals of a session (specification SpecLong).         *)
(***************************************************************************)
\* C30: the hands_played and profit_bb a session gets from end_session are
\* the number of hands finalized during the session and the sum of their
\* result_bb, however many hands were played, more than the store's
\* max_hands included.
C30_SessionTotalsAreAllHands ==
    [][ (current_session # NoSession /\ last_call'.op = "end_session") =>
          LET session == sessions'[Len(sessions')]
          IN /\ session.hands_played = Len(finalized)
             /\ session.profit_bb = SumResults(finalized) ]_vars

====
